---- MODULE Spec2Model ----
(***************************************************************************)
(* A model of the stamina-toolset core: the VAS data model, the dependency *)
(* graph constructor and the model trimmer, the state trie and the trace   *)
(* trie, the reward-guided trace builder with its explicit model, and the  *)
(* bounded model checking loop with the four binary searches for variable  *)
(* bounds.                                                                 *)
(*                                                                         *)
(* Vectors are sequences; a variable_index is 0-based as in the source, so *)
(* component i of a vector v is v[i + 1].                                  *)
(***************************************************************************)
EXTENDS Integers, Sequences, FiniteSets, TLC

VARIABLES
    vas,                \* the AbstractVas handed to the operation under study
    dg_pc,              \* position of the dependency-graph pipeline
    dg_result,          \* what make_dependency_graph returned
    trimmed_model,      \* what trim_model returned
    trie,               \* a VasTrieNode under a sequence of insertions
    trie_first,         \* the pairs <<vector, id>> of each vector's first insertion
    trie_last,          \* the last insert_if_not_exists call and its outcome
    trie_calls,         \* number of insert_if_not_exists calls made
    num_traces,         \* MagicNumbers::num_traces of the trace builder
    rl_pc,              \* position of add_rl_traces
    rl_i,               \* the index i of the trace add_rl_traces is working on
    trace_trie,         \* the TraceTrieNode of add_rl_traces
    explicit_model,     \* the PrismVasModel add_rl_traces fills
    stored_traces,      \* the traces accepted and stored so far, in order
    bmc_pc,             \* position of the bounding engine
    bmc_k,              \* the step count AbstractVasBmc::run_bmc returned
    bmc_reach,          \* (reachable_formula, steps) of BMCBounds::from_encoding
    bmc_search,         \* the variable and the min_bound, max_bound, bound of the running search
    bmc_bounds,         \* the BMCBounds filled so far
    tt,                 \* a TraceTrieNode under a sequence of exists_or_insert calls
    tt_passed,          \* the traces passed to the calls made so far
    tt_last,            \* the last exists_or_insert call and its outcome
    tt_calls,           \* number of exists_or_insert calls made
    cc_pc,              \* position of cycle_commute
    trace_file,         \* the lines of the trace file, each a list of transition names
    prism_states,       \* the Vec<PrismStyleExplicitState> of cycle_commute
    state_trie,         \* the VasTrieNode of cycle_commute
    prism_transitions,  \* the Vec<PrismStyleExplicitTransition> of cycle_commute
    seed_trace,         \* the edges the trace file added, in order
    cycle_log,          \* the orderings add_cycles fired to the end, with the ids met
    magic_numbers,      \* the MagicNumbers of the trace builder
    rewards,            \* the reward table of add_rl_traces, by transition id
    trace_probability_history,  \* the probabilities of the traces accepted so far
    gen_pc,             \* position of add_rl_traces with its trace generator
    gen_state,          \* current_state of the running generate_single_trace
    gen_trace,          \* trace of the running generate_single_trace
    gen_probability     \* trace_probability of the running generate_single_trace

dg_vars == <<dg_pc, dg_result, trimmed_model>>
trie_vars == <<trie, trie_first, trie_last, trie_calls>>

rl_vars == <<num_traces, rl_pc, rl_i, trace_trie, explicit_model, stored_traces>>

bmc_vars == <<bmc_pc, bmc_k, bmc_reach, bmc_search, bmc_bounds>>

tt_vars == <<tt, tt_passed, tt_last, tt_calls>>

cc_vars == <<cc_pc, trace_file, prism_states, state_trie, prism_transitions,
             seed_trace, cycle_log>>

rw_vars == <<magic_numbers, rewards, trace_probability_history, gen_pc,
             gen_state, gen_trace, gen_probability>>

vars == <<vas, dg_vars, trie_vars, rl_vars, bmc_vars, tt_vars, cc_vars, rw_vars>>

None == [none |-> TRUE]
Some(x) == [some |-> x]

\* A subsystem that takes no part in a specification stays idle.
DgIdle ==
    /\ dg_pc = "idle"
    /\ dg_result = None
    /\ trimmed_model = None

TrieIdle ==
    /\ trie = None
    /\ trie_first = {}
    /\ trie_last = None
    /\ trie_calls = 0

RlIdle ==
    /\ num_traces = 0
    /\ rl_pc = "idle"
    /\ rl_i = 0
    /\ trace_trie = None
    /\ explicit_model = None
    /\ stored_traces = <<>>

BmcIdle ==
    /\ bmc_pc = "idle"
    /\ bmc_k = None
    /\ bmc_reach = None
    /\ bmc_search = None
    /\ bmc_bounds = None

TtIdle ==
    /\ tt = None
    /\ tt_passed = {}
    /\ tt_last = None
    /\ tt_calls = 0

CcIdle ==
    /\ cc_pc = "idle"
    /\ trace_file = <<>>
    /\ prism_states = <<>>
    /\ state_trie = None
    /\ prism_transitions = <<>>
    /\ seed_trace = <<>>
    /\ cycle_log = <<>>

RwIdle ==
    /\ magic_numbers = None
    /\ rewards = None
    /\ trace_probability_history = <<>>
    /\ gen_pc = "idle"
    /\ gen_state = None
    /\ gen_trace = None
    /\ gen_probability = None

----------------------------------------------------------------------------
(* Bounds of the input space.                                              *)

\* largest initial value of a variable
MaxInit == 4
\* largest increment / decrement count of one variable in one transition
MaxStoich == 1
\* largest target value
MaxTarget == 2

\* usize::MAX, the transition id of the artificial root and of sink edges:
\* a value that is no transition id of any model
USIZE_MAX == 0 - 1

----------------------------------------------------------------------------
(* Arithmetic and vector helpers (nalgebra DVector<i128>).                 *)

Abs(x) == IF x < 0 THEN -x ELSE x

\* Rust's integer division: truncation toward zero
RustDiv(a, b) ==
    LET q == Abs(a) \div Abs(b)
    IN  IF (a < 0) = (b < 0) THEN q ELSE -q

VecAdd(a, b) == [i \in 1..Len(a) |-> a[i] + b[i]]
VecScale(a, k) == [i \in 1..Len(a) |-> a[i] * k]
Zeros(n) == [i \in 1..n |-> 0]

RECURSIVE SumSeq(_)
SumSeq(s) == IF s = <<>> THEN 0 ELSE s[1] + SumSeq(Tail(s))

RECURSIVE Flatten(_)
Flatten(ss) == IF ss = <<>> THEN <<>> ELSE ss[1] \o Flatten(Tail(ss))

----------------------------------------------------------------------------
(* The VAS data model.                                                     *)

variable_names == <<"A", "B">>
NumVars == Len(variable_names)

\* VasTransition::new: update = increment - decrement, enabled_bounds = decrement
VasTransitionNew(transition_id, transition_name, increment, decrement, rate_const) ==
    [ transition_id   |-> transition_id,
      transition_name |-> transition_name,
      update_vector   |-> [i \in 1..Len(increment) |-> increment[i] - decrement[i]],
      enabled_bounds  |-> decrement,
      rate_const      |-> rate_const ]

\* AbstractVas::new
AbstractVasNew(names, initial_state, transitions, target) ==
    [ variable_names |-> names,
      initial_state  |-> initial_state,
      transitions    |-> transitions,
      target         |-> target ]

\* The shapes of a transition: what it produces and what it consumes, at
\* most MaxStoich molecules each.
Counts == { c \in [1..NumVars -> 0..MaxStoich] : c[1] + c[2] <= MaxStoich }
Shapes == [increment : Counts, decrement : Counts]
ShapeRank(s) ==
    s.increment[1] + (MaxStoich + 1) * (s.increment[2]
        + (MaxStoich + 1) * (s.decrement[1] + (MaxStoich + 1) * s.decrement[2]))

\* build_transitions: ids are dense and 0-based, in declaration order.  The
\* model files declare no, one or two reactions, named t1 and t2.  build_model
\* hands the lines of the last reaction over unconditionally, so a file
\* without reaction yields ONE transition: unnamed, changing nothing, needing
\* nothing, with the default rate 0.0.
TransitionLists ==
    { << VasTransitionNew(0, "", Zeros(NumVars), Zeros(NumVars), 0) >> } \cup
    { << VasTransitionNew(0, "t1", s.increment, s.decrement, 1) >> : s \in Shapes } \cup
    { << VasTransitionNew(0, "t1", p[1].increment, p[1].decrement, 1),
         VasTransitionNew(1, "t2", p[2].increment, p[2].decrement, 1) >> :
        p \in { q \in Shapes \X Shapes : ShapeRank(q[1]) < ShapeRank(q[2]) } }

InitialStates == [1..NumVars -> 0..MaxInit]

Targets == [variable_index : 0..(NumVars - 1), target_value : 0..MaxTarget]

Models ==
    { AbstractVasNew(variable_names, i, ts, tg) :
        i \in InitialStates, ts \in TransitionLists, tg \in Targets }

\* AbstractVas::get_transition_from_id
\* the first transition carrying the id, None when no transition carries it
get_transition_from_id(model, id) ==
    LET hits == { i \in 1..Len(model.transitions) : model.transitions[i].transition_id = id }
    IN  IF hits = {} THEN None
        ELSE Some(model.transitions[CHOOSE i \in hits : \A j \in hits : i <= j])

\* VasTransition::enabled_vector
enabled_vector(t, state) ==
    \A i \in 1..Len(t.enabled_bounds) : i <= Len(state) => state[i] >= t.enabled_bounds[i]

----------------------------------------------------------------------------
(* The dependency graph constructor (dependency/graph.rs).                 *)

DEBUG_DEPTH_LIMIT == 5000

VasProperty(variable_index, target_value) ==
    [variable_index |-> variable_index, target_value |-> target_value]

\* The state children start from: the node's init after the node's
\* transition has fired `executions` times, less the bounds it needs.
ChildInit(self) ==
    LET u == self.transition.update_vector
        b == self.transition.enabled_bounds
        adjustment == [i \in 1..Len(u) |-> IF u[i] + b[i] # 0 THEN -b[i] ELSE 0]
    IN  VecAdd(VecAdd(self.node_init, VecScale(u, self.executions)), adjustment)

\* What is left of the node's targets once the node has fired.
ChildTargets(self) ==
    LET reqd(prop) ==
            IF self.decrement
            THEN prop.target_value
                 + ((0 - self.transition.update_vector[prop.variable_index + 1]) * self.executions)
            ELSE prop.target_value
                 - ((0 + self.transition.update_vector[prop.variable_index + 1]) * self.executions)
        all == [j \in 1..Len(self.node_target) |->
                  VasProperty(self.node_target[j].variable_index, reqd(self.node_target[j]))]
    IN  SelectSeq(all, LAMBDA p : p.target_value # 0)

\* Every component the node drives below zero is a target of its children.
NegativeTargets(child_init) ==
    LET all == [i \in 1..Len(child_init) |-> VasProperty(i - 1, -child_init[i])]
    IN  SelectSeq(all, LAMBDA p : child_init[p.variable_index + 1] < 0)

\* The sign test that admits a transition as a child for a target.
SignMatch(target, trans) ==
    \/ target.target_value > 0 /\ trans.update_vector[target.variable_index + 1] > 0
    \/ target.target_value < 0 /\ trans.update_vector[target.variable_index + 1] < 0

\* The number of executions of an admitted child.
ChildExecutions(target, trans) ==
    RustDiv(target.target_value, trans.update_vector[target.variable_index + 1])

\* the parent filter comparing only with ancestors more than three levels up
NoParentNamed_distant(parents, name) ==
    \A j \in 1..(Len(parents) - 3) : parents[j].transition_name # name

\* self.parents.iter().all(|p| p.transition_name != trans.transition_name)
NoParentNamed(parents, name) ==
    \A j \in 1..Len(parents) : parents[j].transition_name # name

\* The child created for `trans` and `target`, or nothing.
NewChildren(self, vas_, child_init, target, trans) ==
    IF /\ NoParentNamed(self.parents, trans.transition_name)
       /\ SignMatch(target, trans)
       /\ ChildExecutions(target, trans) > 0
    THEN << [ transition  |-> trans,
              children    |-> <<>>,
              parents     |-> Append(self.parents, self.transition),
              executions  |-> Abs(ChildExecutions(target, trans)),
              enabled     |-> FALSE,      \* this_child_targets is never empty
              node_init   |-> child_init,
              node_target |-> << VasProperty(target.variable_index, target.target_value) >>,
              decrement   |-> ChildExecutions(target, trans) < 0 ] >>
    ELSE <<>>

\* The loop over all targets and, for each, over all transitions.
CandidateChildren(self, vas_) ==
    LET child_init  == ChildInit(self)
        all_targets == ChildTargets(self) \o NegativeTargets(child_init)
    IN  self.children \o
        Flatten([j \in 1..Len(all_targets) |->
            Flatten([k \in 1..Len(vas_.transitions) |->
                NewChildren(self, vas_, child_init, all_targets[j], vas_.transitions[k])])])

\* Children of one transition name are merged: the larger multiplicity stays.
RECURSIVE MergeChildren(_, _)
MergeChildren(children, merged) ==
    IF children = <<>> THEN merged
    ELSE LET child == children[1]
             same  == { i \in 1..Len(merged) :
                          merged[i].transition.transition_name = child.transition.transition_name }
         IN  IF same # {}
             THEN LET i == CHOOSE x \in same : \A y \in same : x <= y
                  IN  MergeChildren(Tail(children),
                        IF child.executions > merged[i].executions
                        THEN [merged EXCEPT ![i] = child] ELSE merged)
             ELSE MergeChildren(Tail(children), Append(merged, child))

\* GraphNode::rec_build_graph under a depth limit: the node after the call,
\* and the Result.  The Result of the call on a child is dropped.
RECURSIVE rec_build_graph_limit(_, _, _, _)
rec_build_graph_limit(self, vas_, depth, limit) ==
    IF depth > limit THEN [node |-> self, result |-> "Err"]
    ELSE IF self.enabled THEN [node |-> self, result |-> "Ok"]
    ELSE
        LET merged == MergeChildren(CandidateChildren(self, vas_), <<>>)
            built  == [i \in 1..Len(merged) |->
                         rec_build_graph_limit(merged[i], vas_, depth + 1, limit).node]
        IN  [ node   |-> [self EXCEPT
                            !.children = built,
                            !.enabled  = IF \E i \in 1..Len(built) : ~built[i].enabled
                                         THEN FALSE ELSE self.enabled],
              result |-> "Ok" ]

\* GraphNode::rec_build_graph
rec_build_graph(self, vas_, depth) ==
    rec_build_graph_limit(self, vas_, depth, DEBUG_DEPTH_LIMIT)

\* property_sat with the comparison slipped from == to >=
property_sat_ge(prop, state) ==
    IF Len(state) < prop.variable_index THEN [ok |-> FALSE]
    ELSE [ok |-> TRUE, value |-> state[prop.variable_index + 1] >= prop.target_value]

\* property_sat
property_sat(prop, state) ==
    IF Len(state) < prop.variable_index THEN [ok |-> FALSE]
    ELSE [ok |-> TRUE, value |-> state[prop.variable_index + 1] = prop.target_value]

\* The root's multiplicity without the case split on the direction
TargetDifference_signed(initial_value, target_value) ==
    target_value - initial_value

\* The multiplicity of the artificial root.
TargetDifference(initial_value, target_value) ==
    IF initial_value < target_value
    THEN target_value - initial_value
    ELSE initial_value - target_value

ARTIFICIAL ==
    [ transition_id   |-> USIZE_MAX,
      transition_name |-> "ARTIFICIAL",
      update_vector   |-> Zeros(NumVars),
      enabled_bounds  |-> Zeros(NumVars),
      rate_const      |-> 0 ]

\* The root node before the recursive expansion.
RootNode(vas_) ==
    LET target_variable   == vas_.target.variable_index
        initial_value     == vas_.initial_state[target_variable + 1]
        target_value      == vas_.target.target_value
        target_difference == TargetDifference(initial_value, target_value)
        decrement         == initial_value > target_value
    IN  [ transition  |-> ARTIFICIAL,
          children    |-> <<>>,
          parents     |-> <<>>,
          executions  |-> target_difference,
          enabled     |-> FALSE,
          node_init   |-> vas_.initial_state,
          node_target |-> << VasProperty(target_variable,
                               IF decrement
                               THEN target_difference - vas_.initial_state[target_variable + 1]
                               ELSE target_difference) >>,
          decrement   |-> decrement ]

\* the check of the initial state against the target
InitiallySat(vas_) == property_sat(vas_.target, vas_.initial_state)

\* make_dependency_graph under a depth limit: Err(..) or Ok(Some(graph)).
\* The Result of the call on the root is dropped.
make_dependency_graph_limit(vas_, limit) ==
    LET initially_sat == InitiallySat(vas_)
    IN  IF initially_sat.ok /\ initially_sat.value
        THEN [ok |-> FALSE, err |-> "InitiallySatisfied"]
        ELSE IF ~initially_sat.ok
        THEN [ok |-> FALSE, err |-> "CannotEvaluateProperty"]
        ELSE [ok |-> TRUE,
              graph |-> [root |-> rec_build_graph_limit(RootNode(vas_), vas_, 1, limit).node]]

\* make_dependency_graph
make_dependency_graph(vas_) == make_dependency_graph_limit(vas_, DEBUG_DEPTH_LIMIT)

\* DependencyGraph::get_transitions: preorder, the artificial root left out.
RECURSIVE traverse(_)
traverse(node) ==
    (IF node.transition.transition_name # "ARTIFICIAL" THEN << node.transition >> ELSE <<>>)
    \o Flatten([i \in 1..Len(node.children) |-> traverse(node.children[i])])

get_transitions(dg) == traverse(dg.root)

\* The depth of the deepest node below `node`, which is at `depth`.
RECURSIVE GraphDepth(_, _)
GraphDepth(node, depth) ==
    IF node.children = <<>> THEN depth
    ELSE LET below == { GraphDepth(node.children[i], depth + 1) : i \in 1..Len(node.children) }
         IN  CHOOSE d \in below : \A e \in below : e <= d

\* All nodes of a graph, the root first.
RECURSIVE GraphNodes(_)
GraphNodes(node) ==
    << node >> \o Flatten([i \in 1..Len(node.children) |-> GraphNodes(node.children[i])])

----------------------------------------------------------------------------
(* The model trimmer (dependency/trimmer.rs).                              *)

\* The indices (1-based) of the variables some graph transition touches.
UsedVariables(model, dg_transitions) ==
    { i \in 1..Len(model.variable_names) :
        \E j \in 1..Len(dg_transitions) :
            \/ dg_transitions[j].update_vector[i] # 0
            \/ dg_transitions[j].enabled_bounds[i] # 0 }

\* The subsequence of `vec` at the positions in `keep`, in order.
Project(vec, keep) ==
    LET idx == SelectSeq([i \in 1..Len(vec) |-> i], LAMBDA i : i \in keep)
    IN  [j \in 1..Len(idx) |-> vec[idx[j]]]

\* position(..).unwrap_or(0) of the target variable's name
TargetIndex(names, name) ==
    LET hits == { i \in 1..Len(names) : names[i] = name }
    IN  IF hits = {} THEN 0 ELSE (CHOOSE i \in hits : \A j \in hits : i <= j) - 1

trim_model(model, dg) ==
    LET dg_transitions == get_transitions(dg)
        used  == UsedVariables(model, dg_transitions)
        names == Project(model.variable_names, used)
        \* a component is kept when its variable's name is among the kept names
        keep  == { i \in 1..Len(model.variable_names) :
                     \E j \in 1..Len(names) : names[j] = model.variable_names[i] }
    IN  [ variable_names |-> names,
          initial_state  |-> Project(model.initial_state, used),
          transitions    |-> [j \in 1..Len(dg_transitions) |->
                                [ transition_id   |-> dg_transitions[j].transition_id,
                                  transition_name |-> dg_transitions[j].transition_name,
                                  update_vector   |-> Project(dg_transitions[j].update_vector, keep),
                                  enabled_bounds  |-> Project(dg_transitions[j].enabled_bounds, keep),
                                  rate_const      |-> dg_transitions[j].rate_const ]],
          target         |-> VasProperty(
                                TargetIndex(names, model.variable_names[model.target.variable_index + 1]),
                                model.target.target_value) ]

----------------------------------------------------------------------------
(* The state trie (model/vas_trie.rs).  LeafNode(id) is [leaf |-> TRUE,    *)
(* id |-> id]; Node(children) is [leaf |-> FALSE, children |-> f] with f a *)
(* function from the values that have a child to the child nodes.          *)

LeafNode(id) == [leaf |-> TRUE, id |-> id]
Node(children) == [leaf |-> FALSE, children |-> children]
\* VasTrieNode::new
VasTrieNodeNew == Node(<<>>)

\* the answer for a vector whose terminal node is a leaf, slipped to the new id
ExistingLeaf_new(existing_id, id) == Some(id)

\* the answer for a vector whose terminal node is a leaf already
ExistingLeaf(existing_id, id) == Some(existing_id)

\* VasTrieNode::insert_if_not_exists: the trie after the call and the
\* returned Option.  The loop descends along the components, creating the
\* missing nodes, and stops at a leaf; a terminal Node becomes the leaf.
RECURSIVE insert_if_not_exists(_, _, _)
insert_if_not_exists(self, state, id) ==
    IF self.leaf THEN [trie |-> self, ret |-> ExistingLeaf(self.id, id)]
    ELSE IF state = <<>> THEN [trie |-> LeafNode(id), ret |-> None]
    ELSE LET val   == state[1]
             child == IF val \in DOMAIN self.children
                      THEN self.children[val] ELSE VasTrieNodeNew
             r     == insert_if_not_exists(child, Tail(state), id)
         IN  [ trie |-> Node([v \in DOMAIN self.children \cup {val} |->
                               IF v = val THEN r.trie ELSE self.children[v]]),
               ret  |-> r.ret ]

\* largest component of an inserted vector
MaxTrieValue == 1
\* largest id handed to insert_if_not_exists
MaxTrieId == 1
\* number of insert_if_not_exists calls followed
MaxInserts == 4

TrieVectors == [1..NumVars -> 0..MaxTrieValue]
TrieIds == 0..MaxTrieId

TrieInit ==
    /\ trie = VasTrieNodeNew
    /\ trie_first = {}
    /\ trie_last = None
    /\ trie_calls = 0
    /\ vas = None
    /\ DgIdle
    /\ RlIdle
    /\ BmcIdle
    /\ TtIdle
    /\ CcIdle
    /\ RwIdle

InsertIfNotExists(state, id) ==
    /\ trie_calls < MaxInserts
    /\ LET r == insert_if_not_exists(trie, state, id)
       IN  /\ trie' = r.trie
           /\ trie_last' = [ state |-> state, id |-> id, ret |-> r.ret,
                             before |-> trie,
                             known |-> \E p \in trie_first : p[1] = state ]
    /\ trie_first' = IF \E p \in trie_first : p[1] = state
                     THEN trie_first ELSE trie_first \cup {<<state, id>>}
    /\ trie_calls' = trie_calls + 1
    /\ UNCHANGED <<vas, dg_vars, rl_vars, bmc_vars, tt_vars, cc_vars, rw_vars>>

TrieNext == \E state \in TrieVectors, id \in TrieIds : InsertIfNotExists(state, id)

SpecTrie == TrieInit /\ [][TrieNext]_vars

\* C4: for vectors of one length, every vector keeps the id of its first
\* insertion: the first insertion returns None, inserting the vector again
\* with any id returns the first id and leaves the trie as it was, and no
\* vector has two ids.
C4_FirstIdKept ==
    /\ \A p \in trie_first : \A id \in TrieIds :
          insert_if_not_exists(trie, p[1], id) = [trie |-> trie, ret |-> Some(p[2])]
    /\ \A p, q \in trie_first : p[1] = q[1] => p[2] = q[2]
    /\ trie_last # None =>
          IF trie_last.known
          THEN /\ \E p \in trie_first : p[1] = trie_last.state /\ trie_last.ret = Some(p[2])
               /\ trie = trie_last.before
          ELSE trie_last.ret = None

\* a vector was inserted a second time, with an id other than its first
C4_Witness ==
    /\ trie_last # None
    /\ trie_last.known
    /\ \E p \in trie_first : p[1] = trie_last.state /\ p[2] # trie_last.id


----------------------------------------------------------------------------
(* Reachability in a VAS, explored up to a cap on the values.              *)

\* no component is followed beyond this value
ReachCap == 4

Successors(model, s) ==
    { VecAdd(s, model.transitions[k].update_vector) :
        k \in { j \in 1..Len(model.transitions) : enabled_vector(model.transitions[j], s) } }

WithinCap(s) == \A i \in 1..Len(s) : s[i] <= ReachCap

RECURSIVE ReachSet(_, _, _)
ReachSet(model, frontier, seen) ==
    IF frontier = {} THEN seen
    ELSE LET next == { n \in UNION { Successors(model, s) : s \in frontier } :
                         WithinCap(n) /\ n \notin seen }
         IN  ReachSet(model, next, seen \cup next)

Reachable(model) == ReachSet(model, {model.initial_state}, {model.initial_state})

\* no reachable state has a successor beyond the cap: Reachable is exact
ReachClosed(model) ==
    \A s \in Reachable(model) : \A n \in Successors(model, s) : WithinCap(n)

SatisfiesTarget(model, s) ==
    /\ Len(s) > model.target.variable_index
    /\ s[model.target.variable_index + 1] = model.target.target_value

TargetReachable(model) == \E s \in Reachable(model) : SatisfiesTarget(model, s)

----------------------------------------------------------------------------
(* The trace trie (trace/trace_trie.rs).                                   *)

TraceLeafNode == [leaf |-> TRUE]
TraceNode(children) == [leaf |-> FALSE, children |-> children]
\* TraceTrieNode::new
TraceTrieNodeNew == TraceNode(<<>>)

\* TraceTrieNode::exists_or_insert: the trie after the call and the returned
\* bool (true: the trace exists, false: it was inserted).
RECURSIVE exists_or_insert(_, _)
exists_or_insert(self, trace) ==
    IF self.leaf THEN [trie |-> self, ret |-> TRUE]
    ELSE IF trace = <<>> THEN [trie |-> TraceLeafNode, ret |-> FALSE]
    ELSE LET transition == trace[1]
             child == IF transition \in DOMAIN self.children
                      THEN self.children[transition] ELSE TraceTrieNodeNew
             r     == exists_or_insert(child, Tail(trace))
         IN  [ trie |-> TraceNode([t \in DOMAIN self.children \cup {transition} |->
                                    IF t = transition THEN r.trie ELSE self.children[t]]),
               ret  |-> r.ret ]

\* Bounds of the calls on one trace trie.
\* largest transition id in a trace
MaxTraceId == 1
\* largest length of a trace
MaxTraceLen == 2
\* largest number of calls
MaxTraceCalls == 3

TraceIds == 0..MaxTraceId
Traces == UNION { [1..n -> TraceIds] : n \in 0..MaxTraceLen }

TtInit ==
    /\ tt = TraceTrieNodeNew
    /\ tt_passed = {}
    /\ tt_last = None
    /\ tt_calls = 0
    /\ vas = None
    /\ DgIdle
    /\ TrieIdle
    /\ RlIdle
    /\ BmcIdle
    /\ CcIdle
    /\ RwIdle

\* one call trace_trie.exists_or_insert(&trace)
ExistsOrInsert(trace) ==
    /\ tt_calls < MaxTraceCalls
    /\ LET r == exists_or_insert(tt, trace)
       IN  /\ tt' = r.trie
           /\ tt_last' = [trace |-> trace, ret |-> r.ret, passed_before |-> trace \in tt_passed]
    /\ tt_passed' = tt_passed \cup {trace}
    /\ tt_calls' = tt_calls + 1
    /\ UNCHANGED <<vas, dg_vars, trie_vars, rl_vars, bmc_vars, cc_vars, rw_vars>>

TtNext == \E trace \in Traces : ExistsOrInsert(trace)

SpecTraceTrie == TtInit /\ [][TtNext]_vars

\* C16: a call of exists_or_insert returns true if and only if an identical
\* trace was passed to an earlier call (so a proper prefix or a proper
\* extension of a recorded trace is not reported as present).
C16_PresentIffPassedBefore ==
    tt_last # None => (tt_last.ret <=> tt_last.passed_before)

----------------------------------------------------------------------------
(* The reward-guided trace builder (builder/ragtimer/rl_traces.rs).  Rates *)
(* are f64 in the source; with the integer rate constants of the models    *)
(* every rate is an integer and the arithmetic on them is exact.           *)

\* the cap on the length of a generated trace (10000 in the source)
MAX_TRACE_LENGTH == 3
\* largest num_traces
MaxNumTraces == 2

\* the ids of all transitions, enabled or not
get_available_transitions_all(model, current_state) ==
    [j \in 1..Len(model.transitions) |-> model.transitions[j].transition_id]

\* get_available_transitions: the ids of the enabled transitions, in order
get_available_transitions(model, current_state) ==
    LET enabled == SelectSeq(model.transitions, LAMBDA t : enabled_vector(t, current_state))
    IN  [j \in 1..Len(enabled) |-> enabled[j].transition_id]

\* crn_transition_rate
crn_transition_rate(current_state, transition) ==
    SumSeq([i \in 1..Len(current_state) |-> transition.rate_const * current_state[i]])

\* crn_total_outgoing_rate: the rates of the available transitions added
\* up, 0.0 as soon as an id is not found in the model
crn_total_outgoing_rate(model, current_state) ==
    LET available == get_available_transitions(model, current_state)
        found == [j \in 1..Len(available) |-> get_transition_from_id(model, available[j])]
    IN  IF \E j \in 1..Len(found) : found[j] = None THEN 0
        ELSE SumSeq([j \in 1..Len(found) |->
                       crn_transition_rate(current_state, found[j].some)])

\* the label of a state stored by store_explicit_trace
TargetLabel(model, state) ==
    IF /\ Len(state) > model.target.variable_index
       /\ state[model.target.variable_index + 1] = model.target.target_value
    THEN Some("target") ELSE None

PrismVasState(state_id, vector, label, total_outgoing_rate) ==
    [ state_id |-> state_id, vector |-> vector, label |-> label,
      total_outgoing_rate |-> total_outgoing_rate ]

PrismVasTransition(transition_id, from_state, to_state, rate) ==
    [ transition_id |-> transition_id, from_state |-> from_state,
      to_state |-> to_state, rate |-> rate ]

\* PrismVasModel::new
PrismVasModelNew ==
    [ variable_names |-> <<>>, states |-> <<>>, transitions |-> <<>>,
      state_trie |-> VasTrieNodeNew, transition_map |-> <<>> ]

\* PrismVasModel::from_abstract_model
from_abstract_model(abstract_model) ==
    [PrismVasModelNew EXCEPT !.variable_names = abstract_model.variable_names]

\* transition_map.entry(key).or_insert_with(Vec::new).push(pair)
MapPush(map, key, pair) ==
    [k \in DOMAIN map \cup {key} |->
        IF k = key
        THEN (IF key \in DOMAIN map THEN Append(map[key], pair) ELSE << pair >>)
        ELSE map[k]]

\* the id of the last state of the table, taken for the next free one
available_state_id_last(em) == Len(em.states) - 1

\* let available_state_id = explicit_model.states.len()
available_state_id_of(em) == Len(em.states)

\* The state is looked up in the state trie under the next free id; a
\* state that is new is added with an edge to the absorbing state that
\* carries its whole outgoing rate.
StoreState(em, model, state) ==
    LET available_state_id == available_state_id_of(em)
        r == insert_if_not_exists(em.state_trie, state, available_state_id)
    IN  IF r.ret # None
        THEN [em |-> [em EXCEPT !.state_trie = r.trie], id |-> r.ret.some]
        ELSE LET outgoing_rate == crn_total_outgoing_rate(model, state)
                 transitions == Append(em.transitions,
                                   PrismVasTransition(USIZE_MAX, available_state_id, 0, outgoing_rate))
             IN  [ em |-> [ em EXCEPT
                              !.states = Append(em.states,
                                  PrismVasState(available_state_id, state,
                                                TargetLabel(model, state), outgoing_rate)),
                              !.transitions = transitions,
                              !.state_trie = r.trie,
                              !.transition_map = MapPush(em.transition_map, available_state_id,
                                                         <<0, Len(transitions) - 1>>) ],
                   id |-> available_state_id ]

\* The index of the absorbing edge taken from the entry found in the
\* transition map: the entry is (to_state, index) and the pattern
\* (absorbing_index, _) binds its first component.
AbsorbingIndex(entry) == entry[1]

\* The edge from current_state_id to next_state_id is added unless the
\* source already has an edge to that state; the rate of the edge is
\* subtracted from the edge transitions[absorbing_index].
StoreEdge(em, model, current_state, current_state_id, next_state_id, transition_id) ==
    LET map == em.transition_map
        transition_exists ==
            /\ current_state_id \in DOMAIN map
            /\ \E j \in 1..Len(map[current_state_id]) : map[current_state_id][j][1] = next_state_id
    IN  IF transition_exists THEN em
        ELSE LET vas_transition == get_transition_from_id(model, transition_id)
                 transition_rate ==
                     IF vas_transition # None
                     THEN crn_transition_rate(current_state, vas_transition.some)
                     ELSE 0
                 transitions == Append(em.transitions,
                                   PrismVasTransition(transition_id, current_state_id,
                                                      next_state_id, transition_rate))
                 map2 == MapPush(map, current_state_id, <<next_state_id, Len(transitions) - 1>>)
                 outgoing == map2[current_state_id]
                 found == { j \in 1..Len(outgoing) : outgoing[j][1] = 0 }
             IN  IF found = {}
                 THEN [em EXCEPT !.transitions = transitions, !.transition_map = map2]
                 ELSE LET first == CHOOSE j \in found : \A k \in found : j <= k
                          absorbing_index == AbsorbingIndex(outgoing[first])
                      IN  [em EXCEPT
                             !.transitions =
                                 [transitions EXCEPT ![absorbing_index + 1].rate = @ - transition_rate],
                             !.transition_map = map2]

\* The loop of store_explicit_trace from `current_state` on; `loc` holds
\* next_state, current_state_id and next_state_id, which keep their values
\* from the round before when the id of the round is not found in the model.
RECURSIVE StoreFrom(_, _, _, _, _)
StoreFrom(em, model, current_state, loc, trace) ==
    IF trace = <<>> THEN em
    ELSE LET vas_transition == get_transition_from_id(model, trace[1])
         IN  IF vas_transition # None
             THEN LET cur == StoreState(em, model, current_state)
                      next_state == VecAdd(current_state, vas_transition.some.update_vector)
                      nxt == StoreState(cur.em, model, next_state)
                  IN  StoreFrom(StoreEdge(nxt.em, model, current_state, cur.id, nxt.id, trace[1]),
                                model, next_state,
                                [next_state |-> next_state, current_state_id |-> cur.id,
                                 next_state_id |-> nxt.id],
                                Tail(trace))
             ELSE StoreFrom(StoreEdge(em, model, current_state, loc.current_state_id,
                                      loc.next_state_id, trace[1]),
                            model, loc.next_state, loc, Tail(trace))

\* store_explicit_trace
store_explicit_trace(em, model, trace) ==
    StoreFrom(em, model, model.initial_state,
              [next_state |-> model.initial_state, current_state_id |-> 0, next_state_id |-> 0],
              trace)

\* add_rl_traces up to the trace loop: the state space storage is set up
\* with the initial state under id 1 and the absorbing state under id 0.
SetUpStorage(em, model) ==
    LET current_state == model.initial_state
        r1 == insert_if_not_exists(VasTrieNodeNew, current_state, 1)
        absorbing_state == [i \in 1..Len(current_state) |-> 0 - 1]
        r2 == insert_if_not_exists(r1.trie, absorbing_state, 0)
    IN  [em EXCEPT
           !.state_trie = r2.trie,
           !.states = em.states \o
               << PrismVasState(1, current_state, Some("init"),
                                crn_total_outgoing_rate(model, current_state)),
                  PrismVasState(0, absorbing_state, Some("sink"), 0) >>]

\* the edges of the explicit model that leave state `id`
OutgoingEdges(id) ==
    { j \in 1..Len(explicit_model.transitions) : explicit_model.transitions[j].from_state = id }

RECURSIVE SumRates(_)
SumRates(edges) ==
    IF edges = {} THEN 0
    ELSE LET j == CHOOSE x \in edges : TRUE
         IN  explicit_model.transitions[j].rate + SumRates(edges \ {j})

\* C1: once a trace is stored, every non-sink state of the explicit model,
\* the initial state included, has exactly one edge to the sink (id 0), and
\* the rates of its outgoing edges add up to its total_outgoing_rate.
C1_SinkEdgeAndRateSum ==
    (rl_pc \in {"loop", "done"} /\ rl_i >= 1) =>
        \A k \in 1..Len(explicit_model.states) :
            LET st == explicit_model.states[k]
            IN  st.state_id # 0 =>
                  /\ Cardinality({ j \in OutgoingEdges(st.state_id) :
                                     explicit_model.transitions[j].to_state = 0 }) = 1
                  /\ SumRates(OutgoingEdges(st.state_id)) = st.total_outgoing_rate

\* the id the state trie holds for a vector, if any
TrieLookup(trie_, vector) == insert_if_not_exists(trie_, vector, 0).ret

\* C23: in the explicit model of add_rl_traces state id 0 is the sink (all
\* components -1, total outgoing rate 0), state id 1 is the initial state,
\* all state ids are pairwise distinct and every state vector belongs to
\* exactly one state, whose state_id is the id the state trie holds for it.
C23_StateIdsConsistent ==
    rl_pc # "start" =>
        LET states == explicit_model.states
        IN  /\ \E k \in 1..Len(states) :
                  /\ states[k].state_id = 0
                  /\ states[k].vector = [i \in 1..Len(vas.initial_state) |-> 0 - 1]
                  /\ states[k].total_outgoing_rate = 0
            /\ \E k \in 1..Len(states) :
                  /\ states[k].state_id = 1
                  /\ states[k].vector = vas.initial_state
            /\ \A j, k \in 1..Len(states) :
                  j # k => /\ states[j].state_id # states[k].state_id
                           /\ states[j].vector # states[k].vector
            /\ \A k \in 1..Len(states) :
                  TrieLookup(explicit_model.state_trie, states[k].vector)
                      = Some(states[k].state_id)

\* two traces are stored and they added at least two states
C23_Witness ==
    /\ rl_pc = "done"
    /\ Len(stored_traces) = 2
    /\ Len(explicit_model.states) >= 4

\* a trace that generate_single_trace can return and the loop would accept
AcceptableTrace(trace) == trace # <<>> /\ ~exists_or_insert(trace_trie, trace).ret

\* the state generate_single_trace is in after it fired `trace` from `state`
RECURSIVE StateAfter(_, _, _)
StateAfter(model, state, trace) ==
    IF trace = <<>> THEN state
    ELSE LET vas_transition == get_transition_from_id(model, trace[1])
         IN  StateAfter(model,
                        IF vas_transition # None
                        THEN VecAdd(state, vas_transition.some.update_vector) ELSE state,
                        Tail(trace))

\* the generation of `trace` ended at a state without enabled transition
Stalled(model, trace) ==
    LET last == StateAfter(model, model.initial_state, trace)
    IN  /\ Len(trace) < MAX_TRACE_LENGTH
        /\ ~SatisfiesTarget(model, last)
        /\ get_available_transitions(model, last) = <<>>

\* C19: when trace generation stalls at a state with no enabled transition
\* (the initial state included, which gives the empty trace), the builder
\* takes the partial trace and goes on: a stalled trace that is not stored
\* yet is accepted by the loop, not regenerated.
C19_StallIsTaken ==
    (/\ rl_pc = "loop"
     /\ gen_pc = "returned"
     /\ Stalled(vas, gen_trace)
     /\ \A j \in 1..Len(stored_traces) : stored_traces[j] # gen_trace)
        => AcceptableTrace(gen_trace)

----------------------------------------------------------------------------
(* The bounding engine (bmc/encoding.rs, bmc/bounds.rs, bmc/vas_bmc.rs).   *)
(* A formula over the time-indexed variables is kept as the set of its     *)
(* satisfying assignments: the sequences of bit-vector valuations at the   *)
(* times 0, 1, ... the formula speaks about.                               *)

\* the width of the bit-vectors (9 in the source); as in the source, not
\* every initial value of the input space fits the width
NUM_BITS == 2
\* the cap on the steps of the unrolling (1000 in the source)
MAX_BMC_STEPS == 4

\* ast::BV::from_i64(value, bits): the value in two's complement
from_i64(value, bits) == value % (2 ^ bits)
bvadd(a, b, bits) == (a + b) % (2 ^ bits)
bvsub(a, b, bits) == (a - b) % (2 ^ bits)
bvuge(a, b) == a >= b
bvule(a, b) == a <= b

\* init_formula: every variable equals its initial value
InitFormula(model, bits) ==
    [i \in 1..Len(model.variable_names) |-> from_i64(model.initial_state[i], bits)]

\* target_formula, at a valuation
TargetFormula(model, bits, current) ==
    current[model.target.variable_index + 1] = from_i64(model.target.target_value, bits)

\* The constraints of one transition: its guards at a valuation, and the
\* one next valuation its update constraints admit.
TransitionGuards(transition, bits, current) ==
    \A i \in 1..Len(current) :
        (/\ ~(transition.update_vector[i] = 0 /\ transition.enabled_bounds[i] = 0)
         /\ transition.enabled_bounds[i] > 0)
            => bvuge(current[i], from_i64(transition.enabled_bounds[i], bits))

TransitionUpdate(transition, bits, current) ==
    [i \in 1..Len(current) |->
        IF transition.update_vector[i] = 0 /\ transition.enabled_bounds[i] = 0
        THEN current[i]
        ELSE IF transition.update_vector[i] > 0
        THEN bvadd(current[i], from_i64(transition.update_vector[i], bits), bits)
        ELSE bvsub(current[i], from_i64(transition.update_vector[i], bits), bits)]

\* transition_formula, the disjunction over the transitions: the next
\* valuations it admits at a valuation
TransitionFormula(model, bits, current) ==
    { TransitionUpdate(model.transitions[j], bits, current) :
        j \in { j \in 1..Len(model.transitions) :
                  TransitionGuards(model.transitions[j], bits, current) } }

\* formula /\ at_time(transition_formula, k)
AndTransitionAt(model, bits, formula, k) ==
    UNION { { Append(p, next) : next \in TransitionFormula(model, bits, p[k + 1]) } :
            p \in formula }

\* formula /\ at_time(target_formula, k)
AndTargetAt(model, bits, formula, k) ==
    { p \in formula : TargetFormula(model, bits, p[k + 1]) }

\* solver.check()
Sat(formula) == formula # {}

\* the range of the loop `for k in 0..max_steps`
StepRange(max_steps) == 0..(max_steps - 1)

\* the loop of run_bmc from step k on
RECURSIVE BmcLoop(_, _, _, _, _)
BmcLoop(model, bits, formula, k, max_steps) ==
    LET step_formula == AndTargetAt(model, bits, formula, k)
    IN  IF Sat(step_formula)
        THEN [formula |-> step_formula, max_k |-> k, status |-> "Sat"]
        ELSE LET unrolled == AndTransitionAt(model, bits, formula, k)
             IN  IF k + 1 \in StepRange(max_steps)
                 THEN BmcLoop(model, bits, unrolled, k + 1, max_steps)
                 ELSE [formula |-> unrolled, max_k |-> k, status |-> "Unsat"]

\* BMCEncoding::run_bmc on the encoding of `model`
run_bmc(model, bits, max_steps) ==
    LET formula == { << InitFormula(model, bits) >> }
    IN  IF 0 \in StepRange(max_steps)
        THEN BmcLoop(model, bits, formula, 0, max_steps)
        ELSE [formula |-> formula, max_k |-> 0, status |-> "Unsat"]

\* Unroller::at_all_times_or / at_all_times_and of the terms at times 0..k
at_all_times_or(terms) == \E t \in DOMAIN terms : terms[t]
at_all_times_and(terms) == \A t \in DOMAIN terms : terms[t]

\* the four bound formulas conjoined with the reachable formula, checked
LooseUpperSat(reach, var, bound, bits) ==
    Sat({ p \in reach.formula :
            at_all_times_or([t \in 1..(reach.steps + 1) |-> bvuge(p[t][var], from_i64(bound, bits))]) })
TightUpperSat(reach, var, bound, bits) ==
    Sat({ p \in reach.formula :
            at_all_times_and([t \in 1..(reach.steps + 1) |-> bvule(p[t][var], from_i64(bound, bits))]) })
LooseLowerSat_always(reach, var, bound, bits) == TightUpperSat(reach, var, bound, bits)

LooseLowerSat(reach, var, bound, bits) ==
    Sat({ p \in reach.formula :
            at_all_times_or([t \in 1..(reach.steps + 1) |-> bvule(p[t][var], from_i64(bound, bits))]) })
TightLowerSat(reach, var, bound, bits) ==
    Sat({ p \in reach.formula :
            at_all_times_and([t \in 1..(reach.steps + 1) |-> bvuge(p[t][var], from_i64(bound, bits))]) })

Search(var, min_bound, max_bound, bound) ==
    [var |-> var, min_bound |-> min_bound, max_bound |-> max_bound, bound |-> bound]

\* the values a search starts from
LooseUpperStart(model, var, bits) == Search(var, model.initial_state[var], 2 ^ bits - 1, 0)
TightUpperStart(model, var, bits) == Search(var, model.initial_state[var], 2 ^ bits - 1, 2 ^ bits - 1)
LooseLowerStart(model, var) == Search(var, 0, model.initial_state[var], model.initial_state[var])
TightLowerStart(model, var) == Search(var, 0, model.initial_state[var], 0)

\* One round of the loop of a search: the search after the round and
\* whether the loop was left.

\* step 1, the loosest upper bound
LooseUpperRound(reach, s, bits) ==
    IF LooseUpperSat(reach, s.var, s.bound, bits)
    THEN IF s.bound >= s.max_bound THEN [search |-> s, break |-> TRUE]
         ELSE [search |-> [s EXCEPT !.min_bound = s.bound,
                                    !.bound = s.bound + RustDiv(s.max_bound - s.bound + 1, 2)],
               break |-> FALSE]
    ELSE LET b == IF s.bound >= s.max_bound THEN s.bound - 1 ELSE s.bound
         IN  [search |-> [s EXCEPT !.max_bound = b,
                                   !.bound = IF b = 2 ^ bits - 1 THEN b - 1
                                             ELSE b - RustDiv(b - s.min_bound, 2)],
              break |-> FALSE]

\* step 2, the tightest upper bound
TightUpperRound(reach, s, bits) ==
    IF TightUpperSat(reach, s.var, s.bound, bits)
    THEN IF s.bound <= s.min_bound THEN [search |-> s, break |-> TRUE]
         ELSE [search |-> [s EXCEPT !.max_bound = s.bound,
                                    !.bound = IF s.bound = 1 THEN 0
                                              ELSE s.bound - RustDiv(s.bound - s.min_bound + 1, 2)],
               break |-> FALSE]
    ELSE IF s.bound <= s.min_bound
         THEN [search |-> [s EXCEPT !.bound = s.bound + 1], break |-> TRUE]
         ELSE [search |-> [s EXCEPT !.min_bound = s.bound,
                                    !.bound = s.bound + RustDiv(s.max_bound - s.bound, 2)],
               break |-> FALSE]

LooseLowerShortCircuit_never(s) == FALSE

\* the short-circuit of step 3, tested before the solver is asked
LooseLowerShortCircuit(s) == s.max_bound = 0

\* step 3, the loosest lower bound
LooseLowerRound(reach, s, bits) ==
    IF LooseLowerShortCircuit(s) THEN [search |-> [s EXCEPT !.bound = 0], break |-> TRUE]
    ELSE IF LooseLowerSat(reach, s.var, s.bound, bits)
    THEN IF s.bound <= s.min_bound THEN [search |-> s, break |-> TRUE]
         ELSE [search |-> [s EXCEPT !.max_bound = s.bound,
                                    !.bound = IF s.bound = 1 THEN 0
                                              ELSE s.bound - RustDiv(s.bound - s.min_bound + 1, 2)],
               break |-> FALSE]
    ELSE IF s.bound <= s.min_bound
         THEN [search |-> [s EXCEPT !.bound = s.bound + 1], break |-> TRUE]
         ELSE [search |-> [s EXCEPT !.min_bound = s.bound,
                                    !.bound = s.bound + RustDiv(s.max_bound - s.bound, 2)],
               break |-> FALSE]

\* step 4, the tightest lower bound
TightLowerRound(reach, s, bits) ==
    IF s.max_bound = 0 THEN [search |-> [s EXCEPT !.bound = 0], break |-> TRUE]
    ELSE IF TightLowerSat(reach, s.var, s.bound, bits)
    THEN IF s.bound >= s.max_bound THEN [search |-> s, break |-> TRUE]
         ELSE [search |-> [s EXCEPT !.min_bound = s.bound,
                                    !.bound = s.bound + RustDiv(s.max_bound - s.bound + 1, 2)],
               break |-> FALSE]
    ELSE IF s.bound >= s.max_bound
         THEN [search |-> [s EXCEPT !.bound = s.bound - 1], break |-> TRUE]
         ELSE [search |-> [s EXCEPT !.max_bound = s.bound,
                                    !.bound = IF s.bound = 2 ^ bits - 1 THEN s.bound - 1
                                              ELSE s.bound - RustDiv(s.bound - s.min_bound, 2)],
               break |-> FALSE]

BMCBoundsNew == [lb_loose |-> <<>>, lb_tight |-> <<>>, ub_loose |-> <<>>, ub_tight |-> <<>>]

\* the model a bounding works on: the parsed model, and the trimmed model
\* once trim_model has returned it
BoundedModel == IF trimmed_model = None THEN vas ELSE trimmed_model

BmcInit ==
    /\ vas \in Models
    /\ bmc_pc = "encoded"
    /\ bmc_k = None
    /\ bmc_reach = None
    /\ bmc_search = None
    /\ bmc_bounds = None
    /\ DgIdle
    /\ TrieIdle
    /\ RlIdle
    /\ TtIdle
    /\ CcIdle
    /\ RwIdle

\* AbstractVasBmc::run_bmc
RunBmc ==
    /\ bmc_pc = "encoded"
    /\ bmc_pc' = "bmc_returned"
    /\ bmc_k' = Some(run_bmc(BoundedModel, NUM_BITS, MAX_BMC_STEPS).max_k)
    /\ UNCHANGED <<vas, bmc_reach, bmc_search, bmc_bounds, dg_vars, trie_vars, rl_vars, tt_vars, cc_vars, rw_vars>>

\* BMCBounds::from_encoding up to the first search: it runs the unrolling
\* itself; the four loops over the variables are empty for a model without
\* variables
FromEncoding ==
    /\ bmc_pc = "encoded"
    /\ LET r == run_bmc(BoundedModel, NUM_BITS, MAX_BMC_STEPS)
           steps == r.max_k
       IN  /\ bmc_reach' = [formula |-> r.formula, steps |-> steps, status |-> r.status]
           /\ IF steps = 0 \/ steps >= MAX_BMC_STEPS
              THEN /\ bmc_pc' = "panic"
                   /\ UNCHANGED <<bmc_search, bmc_bounds>>
              ELSE IF BoundedModel.variable_names = <<>>
              THEN /\ bmc_pc' = "done"
                   /\ bmc_bounds' = BMCBoundsNew
                   /\ UNCHANGED bmc_search
              ELSE /\ bmc_pc' = "ub_loose"
                   /\ bmc_bounds' = BMCBoundsNew
                   /\ bmc_search' = LooseUpperStart(BoundedModel, 1, NUM_BITS)
    /\ UNCHANGED <<vas, bmc_k, dg_vars, trie_vars, rl_vars, tt_vars, cc_vars, rw_vars>>

\* one round of the search loop of step 1, and what follows its break
LooseUpperStep ==
    /\ bmc_pc = "ub_loose"
    /\ LET r == LooseUpperRound(bmc_reach, bmc_search, NUM_BITS)
       IN  IF ~r.break
           THEN /\ bmc_search' = r.search
                /\ UNCHANGED <<bmc_pc, bmc_bounds>>
           ELSE /\ bmc_bounds' = [bmc_bounds EXCEPT !.ub_loose = Append(@, r.search.bound)]
                /\ IF r.search.var < Len(BoundedModel.variable_names)
                   THEN /\ bmc_search' = LooseUpperStart(BoundedModel, r.search.var + 1, NUM_BITS)
                        /\ UNCHANGED bmc_pc
                   ELSE /\ bmc_search' = TightUpperStart(BoundedModel, 1, NUM_BITS)
                        /\ bmc_pc' = "ub_tight"
    /\ UNCHANGED <<vas, bmc_k, bmc_reach, dg_vars, trie_vars, rl_vars, tt_vars, cc_vars, rw_vars>>

\* one round of the search loop of step 2
TightUpperStep ==
    /\ bmc_pc = "ub_tight"
    /\ LET r == TightUpperRound(bmc_reach, bmc_search, NUM_BITS)
       IN  IF ~r.break
           THEN /\ bmc_search' = r.search
                /\ UNCHANGED <<bmc_pc, bmc_bounds>>
           ELSE /\ bmc_bounds' = [bmc_bounds EXCEPT !.ub_tight = Append(@, r.search.bound)]
                /\ IF r.search.var < Len(BoundedModel.variable_names)
                   THEN /\ bmc_search' = TightUpperStart(BoundedModel, r.search.var + 1, NUM_BITS)
                        /\ UNCHANGED bmc_pc
                   ELSE /\ bmc_search' = LooseLowerStart(BoundedModel, 1)
                        /\ bmc_pc' = "lb_loose"
    /\ UNCHANGED <<vas, bmc_k, bmc_reach, dg_vars, trie_vars, rl_vars, tt_vars, cc_vars, rw_vars>>

\* one round of the search loop of step 3
LooseLowerStep ==
    /\ bmc_pc = "lb_loose"
    /\ LET r == LooseLowerRound(bmc_reach, bmc_search, NUM_BITS)
       IN  IF ~r.break
           THEN /\ bmc_search' = r.search
                /\ UNCHANGED <<bmc_pc, bmc_bounds>>
           ELSE /\ bmc_bounds' = [bmc_bounds EXCEPT !.lb_loose = Append(@, r.search.bound)]
                /\ IF r.search.var < Len(BoundedModel.variable_names)
                   THEN /\ bmc_search' = LooseLowerStart(BoundedModel, r.search.var + 1)
                        /\ UNCHANGED bmc_pc
                   ELSE /\ bmc_search' = TightLowerStart(BoundedModel, 1)
                        /\ bmc_pc' = "lb_tight"
    /\ UNCHANGED <<vas, bmc_k, bmc_reach, dg_vars, trie_vars, rl_vars, tt_vars, cc_vars, rw_vars>>

\* one round of the search loop of step 4; after the last variable
\* from_encoding returns the bounds
TightLowerStep ==
    /\ bmc_pc = "lb_tight"
    /\ LET r == TightLowerRound(bmc_reach, bmc_search, NUM_BITS)
       IN  IF ~r.break
           THEN /\ bmc_search' = r.search
                /\ UNCHANGED <<bmc_pc, bmc_bounds>>
           ELSE /\ bmc_bounds' = [bmc_bounds EXCEPT !.lb_tight = Append(@, r.search.bound)]
                /\ IF r.search.var < Len(BoundedModel.variable_names)
                   THEN /\ bmc_search' = TightLowerStart(BoundedModel, r.search.var + 1)
                        /\ UNCHANGED bmc_pc
                   ELSE /\ bmc_search' = None
                        /\ bmc_pc' = "done"
    /\ UNCHANGED <<vas, bmc_k, bmc_reach, dg_vars, trie_vars, rl_vars, tt_vars, cc_vars, rw_vars>>

\* variable_bounds: from_encoding with its four searches, round by round
VariableBounds ==
    \/ FromEncoding
    \/ LooseUpperStep
    \/ TightUpperStep
    \/ LooseLowerStep
    \/ TightLowerStep

SpecBMC == BmcInit /\ [][VariableBounds]_vars

\* run_bmc alone, on every model: also on a model whose initial state
\* satisfies the target, which bmc_demo does not bound, as
\* make_dependency_graph fails on it
RunBmcNext == RunBmc

SpecRunBmc == BmcInit /\ [][RunBmcNext]_vars

\* The models of the searches: one transition that produces and consumes any
\* number of A below 2^NUM_BITS, every initial value and every target value
\* of A in [0, 2^NUM_BITS - 1], so that the satisfiability threshold of a
\* search takes every position.
BitValues == 0..(2 ^ NUM_BITS - 1)

SearchModels ==
    { AbstractVasNew(variable_names, <<i, 0>>,
                     << VasTransitionNew(0, "t1", <<inc, 0>>, <<dec, 0>>, 1) >>,
                     VasProperty(0, x)) :
        i \in BitValues, x \in BitValues, inc \in BitValues, dec \in BitValues }

SearchInit ==
    /\ vas \in SearchModels
    /\ bmc_pc = "encoded"
    /\ bmc_k = None
    /\ bmc_reach = None
    /\ bmc_search = None
    /\ bmc_bounds = None
    /\ DgIdle
    /\ TrieIdle
    /\ RlIdle
    /\ TtIdle
    /\ CcIdle
    /\ RwIdle

\* from_encoding runs on its own: every step that is possible is taken
SpecSearch == SearchInit /\ [][VariableBounds]_vars /\ WF_vars(VariableBounds)

\* The models of the searches with initial values up to 3 * 2^NUM_BITS - 1:
\* BV::from_i64 encodes an initial value of 2^NUM_BITS or more by its low
\* NUM_BITS bits, and the searches start from the value itself.  B starts
\* at 0 or at the largest of these values; t1 and the target are those of
\* SearchModels.
WideValues == 0..(3 * 2 ^ NUM_BITS - 1)

SearchWideModels ==
    { AbstractVasNew(variable_names, <<i, j>>,
                     << VasTransitionNew(0, "t1", <<inc, 0>>, <<dec, 0>>, 1) >>,
                     VasProperty(0, x)) :
        i \in WideValues, j \in {0, 3 * 2 ^ NUM_BITS - 1}, x \in BitValues,
        inc \in BitValues, dec \in BitValues }

SearchWideInit ==
    /\ vas \in SearchWideModels
    /\ bmc_pc = "encoded"
    /\ bmc_k = None
    /\ bmc_reach = None
    /\ bmc_search = None
    /\ bmc_bounds = None
    /\ DgIdle
    /\ TrieIdle
    /\ RlIdle
    /\ TtIdle
    /\ CcIdle
    /\ RwIdle

SpecSearchWide == SearchWideInit /\ [][VariableBounds]_vars

\* C28: each of the four binary searches of from_encoding terminates for
\* every variable, every initial value in [0, 2^bits - 1] and every position
\* of the satisfiability threshold, and returns a bound in [0, 2^bits - 1].
C28_SearchesTerminateInRange ==
    /\ <>(bmc_pc \in {"done", "panic"})
    /\ [](bmc_pc = "done" =>
            \A var \in 1..NumVars :
                /\ bmc_bounds.ub_loose[var] \in BitValues
                /\ bmc_bounds.ub_tight[var] \in BitValues
                /\ bmc_bounds.lb_loose[var] \in BitValues
                /\ bmc_bounds.lb_tight[var] \in BitValues)

\* the largest and the smallest member of a non-empty set of numbers
Largest(S) == CHOOSE c \in S : \A d \in S : d <= c
Smallest(S) == CHOOSE c \in S : \A d \in S : c <= d

\* the candidates c of [0, 2^bits - 1] for which the reachable formula
\* together with a bound formula on `var` has a solution
SomeTimeAtLeast(var) ==
    { c \in BitValues : \E p \in bmc_reach.formula :
                            \E t \in 1..(bmc_reach.steps + 1) : p[t][var] >= c }
AllTimesAtMost(var) ==
    { c \in BitValues : \E p \in bmc_reach.formula :
                            \A t \in 1..(bmc_reach.steps + 1) : p[t][var] <= c }
SomeTimeAtMost(var) ==
    { c \in BitValues : \E p \in bmc_reach.formula :
                            \E t \in 1..(bmc_reach.steps + 1) : p[t][var] <= c }

\* C29: the loose upper bound returned for a variable v is the largest c in
\* [0, 2^bits - 1] for which the reachable formula together with
\* (exists t: v@t >= c) is satisfiable, and the tight upper bound is the
\* smallest c for which the reachable formula together with
\* (for all t: v@t <= c) is satisfiable.
C29_UpperBoundsExtremal ==
    bmc_pc = "done" =>
        \A var \in 1..NumVars :
            /\ SomeTimeAtLeast(var) # {}
            /\ bmc_bounds.ub_loose[var] = Largest(SomeTimeAtLeast(var))
            /\ AllTimesAtMost(var) # {}
            /\ bmc_bounds.ub_tight[var] = Smallest(AllTimesAtMost(var))

\* C30 as stated: the loose-lower search returns, for each variable v, the
\* largest c for which the reachable formula together with
\* (exists t: v@t <= c) is satisfiable.
C30_LooseLowerLargest ==
    bmc_pc = "done" =>
        \A var \in 1..NumVars :
            /\ SomeTimeAtMost(var) # {}
            /\ bmc_bounds.lb_loose[var] = Largest(SomeTimeAtMost(var))

\* C30, amended: for each variable v whose initial value is in
\* [0, 2^bits - 1], the loose-lower search returns the smallest c in
\* [0, 2^bits - 1] for which the reachable formula together with
\* (exists t: v@t <= c) is satisfiable.
C30_LooseLowerSmallest ==
    bmc_pc = "done" =>
        \A var \in 1..NumVars :
            vas.initial_state[var] \in BitValues =>
                /\ SomeTimeAtMost(var) # {}
                /\ bmc_bounds.lb_loose[var] = Smallest(SomeTimeAtMost(var))

\* from_encoding has returned, the loose-lower search of a variable whose
\* initial value is in [0, 2^bits - 1] ended strictly between 0 and the
\* value it started from, and the initial value of the other variable is
\* not in [0, 2^bits - 1]
C30_Witness ==
    /\ bmc_pc = "done"
    /\ bmc_reach.status = "Sat"
    /\ \E var \in 1..NumVars :
          /\ vas.initial_state[var] \in BitValues
          /\ 0 < bmc_bounds.lb_loose[var]
          /\ bmc_bounds.lb_loose[var] < vas.initial_state[var]
    /\ \E var \in 1..NumVars : vas.initial_state[var] \notin BitValues

\* C3: when from_encoding completes, lb_loose <= lb_tight <= initial value
\* <= ub_tight <= ub_loose for every variable.
C3_BoundsOrdering ==
    bmc_pc = "done" =>
        \A var \in 1..NumVars :
            /\ bmc_bounds.lb_loose[var] <= bmc_bounds.lb_tight[var]
            /\ bmc_bounds.lb_tight[var] <= vas.initial_state[var]
            /\ vas.initial_state[var] <= bmc_bounds.ub_tight[var]
            /\ bmc_bounds.ub_tight[var] <= bmc_bounds.ub_loose[var]

\* firing a VAS transition at a valuation, modulo 2^bits
FiresTransition(transition, bits, current, next) ==
    /\ enabled_vector(transition, current)
    /\ \A i \in 1..Len(current) :
          next[i] = (current[i] + transition.update_vector[i]) % (2 ^ bits)

\* C20: in the transition formula the next value is current[i] - |update[i]|
\* when update[i] < 0 and current[i] + update[i] when update[i] > 0 (modulo
\* 2^bits): every step of an assignment of the unrolled formula is the
\* firing of a transition of the model.
C20_EncodedStepFiresTransition ==
    bmc_reach # None =>
        \A p \in bmc_reach.formula :
            \A t \in 1..(Len(p) - 1) :
                \E j \in 1..Len(vas.transitions) :
                    FiresTransition(vas.transitions[j], NUM_BITS, p[t], p[t + 1])

\* C12: if the target is satisfiable at no unrolling depth below
\* MAX_BMC_STEPS (the last solver status of run_bmc is unsat), from_encoding
\* fails fatally and computes no bound.
C12_NoSatFailsFatally ==
    (bmc_reach # None /\ bmc_reach.status = "Unsat") => bmc_pc = "panic"

\* the loose-lower search of variable `var` is at its start
LooseLowerStarts(var) ==
    /\ bmc_pc = "lb_loose"
    /\ bmc_search = LooseLowerStart(vas, var)

\* the round of the running loose-lower search takes the short-circuit
\* branch, without a solver query, and the search returns 0
ShortCircuitsToZero ==
    /\ LooseLowerShortCircuit(bmc_search)
    /\ LooseLowerRound(bmc_reach, bmc_search, NUM_BITS)
           = [search |-> [bmc_search EXCEPT !.bound = 0], break |-> TRUE]

\* C18 as stated: when the target value is 0, the loose-lower search for
\* the target variable takes the short-circuit branch at once, before any
\* solver query, and returns 0.
C18_TargetZeroShortCircuit ==
    (LooseLowerStarts(vas.target.variable_index + 1) /\ vas.target.target_value = 0)
        => ShortCircuitsToZero

\* C18, amended: when the initial value of a variable is 0, the loose-lower
\* search for that variable takes the short-circuit branch at once, before
\* any solver query, and returns 0.
C18_InitialZeroShortCircuit ==
    \A var \in 1..NumVars :
        (LooseLowerStarts(var) /\ vas.initial_state[var] = 0) => ShortCircuitsToZero

C18_Witness ==
    /\ LooseLowerStarts(vas.target.variable_index + 1)
    /\ vas.initial_state[vas.target.variable_index + 1] = 0
    /\ bmc_reach.status = "Sat"

----------------------------------------------------------------------------
(* bmc_demo on one model file (demos/bmc_demo.rs): the model is parsed,    *)
(* its dependency graph is built, the parsed model is bounded, the model   *)
(* is trimmed with the graph and the trimmed model is bounded.  A bounding *)
(* that panics ends the program, one whose search does not end keeps the   *)
(* program from going on.                                                  *)

DgInit ==
    /\ vas \in Models
    /\ dg_pc = "parsed"
    /\ dg_result = None
    /\ trimmed_model = None
    /\ TrieIdle
    /\ RlIdle
    /\ BmcIdle
    /\ TtIdle
    /\ CcIdle
    /\ RwIdle

\* let dg = make_dependency_graph(&model): an error leaves the model alone
MakeDependencyGraph ==
    /\ dg_pc = "parsed"
    /\ dg_result' = make_dependency_graph(vas)
    /\ dg_pc' = IF dg_result'.ok THEN "graph" ELSE "error"
    /\ UNCHANGED <<vas, trimmed_model, trie_vars, rl_vars, bmc_vars, tt_vars, cc_vars, rw_vars>>

\* BMCEncoding::from_vas indexes the variable names with the target's
\* variable_index
from_vas_panics(model) == model.target.variable_index >= Len(model.variable_names)

\* setup_z3 and bmc_encoding, on the parsed model after the graph and on
\* the trimmed model after the trimming
BmcEncoding ==
    /\ dg_pc \in {"graph", "trimmed"}
    /\ bmc_pc = "idle"
    /\ bmc_pc' = IF from_vas_panics(BoundedModel) THEN "panic" ELSE "encoded"
    /\ UNCHANGED <<vas, bmc_k, bmc_reach, bmc_search, bmc_bounds, dg_vars, trie_vars, rl_vars,
                   tt_vars, cc_vars, rw_vars>>

\* trim_model, once the bounding of the parsed model has returned; the
\* bounds of the parsed model are dropped (let _ = ...)
TrimModel ==
    /\ dg_pc = "graph"
    /\ bmc_pc = "done"
    /\ trimmed_model' = trim_model(vas, dg_result.graph)
    /\ dg_pc' = "trimmed"
    /\ bmc_pc' = "idle"
    /\ bmc_reach' = None
    /\ bmc_search' = None
    /\ bmc_bounds' = None
    /\ UNCHANGED <<vas, dg_result, bmc_k, trie_vars, rl_vars, tt_vars, cc_vars, rw_vars>>

DgNext ==
    \/ MakeDependencyGraph
    \/ BmcEncoding
    \/ FromEncoding
    \/ LooseUpperStep
    \/ TightUpperStep
    \/ LooseLowerStep
    \/ TightLowerStep
    \/ TrimModel

SpecDG == DgInit /\ [][DgNext]_vars

\* C6: every step count k returned by run_bmc has 0 < k < MAX_BMC_STEPS.
\* run_bmc is called by from_encoding, which keeps the step count it
\* returned next to the reachable formula.
C6_StepCountPositive ==
    bmc_reach # None => (0 < bmc_reach.steps /\ bmc_reach.steps < MAX_BMC_STEPS)

\* most molecules a transition of the three-transition models produces, and
\* most it consumes
MaxGraphStoich == 2
\* largest initial value of the three-transition models
MaxGraphInit == 0

\* The models with three transitions, named t1, t2 and t3, of up to
\* MaxGraphStoich molecules: the smallest in which two branches of a
\* dependency graph carry the same transition.
GraphCounts == { c \in [1..NumVars -> 0..MaxGraphStoich] : c[1] + c[2] <= MaxGraphStoich }
GraphShapes == [increment : GraphCounts, decrement : GraphCounts]
GraphShapeRank(s) ==
    s.increment[1] + (MaxGraphStoich + 1) * (s.increment[2]
        + (MaxGraphStoich + 1) * (s.decrement[1] + (MaxGraphStoich + 1) * s.decrement[2]))

ThreeTransitionLists ==
    { << VasTransitionNew(0, "t1", p[1].increment, p[1].decrement, 1),
         VasTransitionNew(1, "t2", p[2].increment, p[2].decrement, 1),
         VasTransitionNew(2, "t3", p[3].increment, p[3].decrement, 1) >> :
        p \in { q \in GraphShapes \X GraphShapes \X GraphShapes :
                  /\ GraphShapeRank(q[1]) < GraphShapeRank(q[2])
                  /\ GraphShapeRank(q[2]) < GraphShapeRank(q[3]) } }

ThreeTransitionModels ==
    { AbstractVasNew(variable_names, i, ts, tg) :
        i \in [1..NumVars -> 0..MaxGraphInit], ts \in ThreeTransitionLists, tg \in Targets }

DgThreeInit ==
    /\ vas \in ThreeTransitionModels
    /\ dg_pc = "parsed"
    /\ dg_result = None
    /\ trimmed_model = None
    /\ TrieIdle
    /\ RlIdle
    /\ BmcIdle
    /\ TtIdle
    /\ CcIdle
    /\ RwIdle

\* bmc_demo on the models with three transitions
SpecDGThree == DgThreeInit /\ [][DgNext]_vars

\* the depth limit of the expansion, scaled down for the models of the
\* input space (DEBUG_DEPTH_LIMIT, 5000, in the source)
DepthCap == 2

\* make_dependency_graph with the scaled depth limit
MakeDependencyGraphLimit ==
    /\ dg_pc = "parsed"
    /\ dg_result' = make_dependency_graph_limit(vas, DepthCap)
    /\ dg_pc' = IF dg_result'.ok THEN "graph_limit" ELSE "error_limit"
    /\ UNCHANGED <<vas, trimmed_model, trie_vars, rl_vars, bmc_vars, tt_vars, cc_vars, rw_vars>>

DgLimitNext == MakeDependencyGraphLimit

SpecDGLimit == DgInit /\ [][DgLimitNext]_vars

\* the expansion called rec_build_graph on a node beyond the depth limit
DepthLimitExceeded ==
    /\ dg_pc = "graph_limit"
    /\ GraphDepth(dg_result.graph.root, 1) > DepthCap

\* C11: if the expansion of the dependency graph exceeds the depth limit at
\* any node, make_dependency_graph returns an error instead of a graph.
C11_DepthLimitError == ~DepthLimitExceeded

----------------------------------------------------------------------------
(* Claims about the dependency graph and the trimmer.                      *)

GraphBuilt == dg_pc \in {"graph", "trimmed"}
Root == dg_result.graph.root
NodesOfGraph == GraphNodes(Root)
InitiallySatisfied ==
    vas.initial_state[vas.target.variable_index + 1] = vas.target.target_value

\* C2: whenever the target is reachable in the original model, it is
\* reachable in the trimmed model from the trimmed initial state.  (Stated
\* for the models whose trimmed state space is explored completely, so that
\* a violation is a real one.)
C2_TrimPreservesReachability ==
    (dg_pc = "trimmed" /\ TargetReachable(vas) /\ ReachClosed(trimmed_model))
        => TargetReachable(trimmed_model)

\* C7: every node of a returned dependency graph, the artificial root
\* included, has executions > 0.
C7_PositiveMultiplicity ==
    GraphBuilt => \A i \in 1..Len(NodesOfGraph) : NodesOfGraph[i].executions > 0

\* a graph whose root has a child that has a child of its own was built
C7_Witness ==
    /\ GraphBuilt
    /\ \E i \in 1..Len(Root.children) : Root.children[i].children # <<>>

\* C8: make_dependency_graph returns an error and no graph exactly when the
\* initial state satisfies the target, and a graph for every other model.
C8_ErrorIffInitiallySatisfied ==
    dg_pc # "parsed" =>
        /\ InitiallySatisfied => (~dg_result.ok /\ "graph" \notin DOMAIN dg_result)
        /\ ~InitiallySatisfied => (dg_result.ok /\ "graph" \in DOMAIN dg_result)

\* the constructor has refused a model whose initial state satisfies the target
C8_Witness == dg_pc = "error" /\ InitiallySatisfied /\ ~dg_result.ok

\* a transition that decreases the target variable by 1
ConsumesTarget(t) == t.update_vector[vas.target.variable_index + 1] = 0 - 1

\* C9: with the target below the initial value and a transition decreasing
\* the target variable by 1, the root has decrement = true and multiplicity
\* initial - target, and that transition is a child with the same multiplicity.
C9_DecrementRoot ==
    LET initial_value == vas.initial_state[vas.target.variable_index + 1]
        target_value  == vas.target.target_value
    IN  (GraphBuilt /\ target_value < initial_value) =>
            \A k \in 1..Len(vas.transitions) :
                ConsumesTarget(vas.transitions[k]) =>
                    /\ Root.decrement
                    /\ Root.executions = initial_value - target_value
                    /\ \E i \in 1..Len(Root.children) :
                          /\ Root.children[i].transition = vas.transitions[k]
                          /\ Root.children[i].executions = initial_value - target_value

\* the targets a node leaves to its children
ResidualTargets(node) == ChildTargets(node) \o NegativeTargets(ChildInit(node))

\* C10: a node is enabled exactly when all of its children are enabled; in
\* particular a node with no residual target and no children is enabled.
\* (A childless node that still has a residual target is left out.)
C10_EnabledIffChildrenEnabled ==
    GraphBuilt =>
        \A i \in 1..Len(NodesOfGraph) :
            (NodesOfGraph[i].children # <<>> \/ ResidualTargets(NodesOfGraph[i]) = <<>>) =>
                NodesOfGraph[i].enabled =
                    (\A j \in 1..Len(NodesOfGraph[i].children) :
                        NodesOfGraph[i].children[j].enabled)


----------------------------------------------------------------------------
(* The cycle-and-commute state space builder (cycle_commute/commute.rs).   *)
(* Rust vectors are 0-based: entry i of a Vec is element i + 1 here.       *)

\* const MAX_DEPTH
MAX_DEPTH == 2
\* const MAX_CYCLE_LENGTH
MAX_CYCLE_LENGTH == 2

\* most lines of a trace file
MaxSeedLines == 1
\* most transition names on a line of a trace file
MaxSeedLen == 2

\* Vec indexing and Vec::contains
At(vec, index) == vec[index + 1]
Contains(vec, x) == \E k \in DOMAIN vec : vec[k] = x

RECURSIVE FoldLeft(_, _, _)
FoldLeft(Op(_, _), acc, seq) ==
    IF seq = <<>> THEN acc ELSE FoldLeft(Op, Op(acc, Head(seq)), Tail(seq))

\* PrismStyleExplicitState::from_state
from_state(state_vector, total_rate, label, next_states) ==
    [ state_vector |-> state_vector,
      total_rate   |-> total_rate,
      label        |-> label,
      next_states  |-> next_states ]

PrismStyleExplicitTransition(from, to, rate) ==
    [ from_state |-> from, to_state |-> to, rate |-> rate ]

\* VasTransition::get_sck_rate: rate_const times the product of the
\* non-zero enabled bounds
get_sck_rate(self) ==
    self.rate_const *
        FoldLeft(LAMBDA acc, r : IF r # 0 THEN acc * r ELSE acc, 1, self.enabled_bounds)

\* the sum of get_sck_rate over the transitions of the model
rate_sum(model) ==
    FoldLeft(LAMBDA acc, trans : acc + get_sck_rate(trans), 0, model.transitions)

\* AbstractVas::get_transition_from_name
get_transition_from_name(model, transition_name) ==
    LET hits == { i \in 1..Len(model.transitions) :
                    model.transitions[i].transition_name = transition_name }
    IN  IF hits = {} THEN None
        ELSE Some(model.transitions[CHOOSE i \in hits : \A j \in hits : i <= j])

Negative(state) == \E i \in 1..Len(state) : state[i] < 0

\* Pushing next_state_id on the successors of the state at index id.
PushNext(states, id, next_state_id) ==
    [states EXCEPT ![id + 1].next_states = Append(@, next_state_id)]

\* cycle_commute, lines 160-181: the bookkeeping before the trace file is
\* read.  The initial state goes into the trie with id 1; the state table
\* receives the absorbing state only.
Bookkeeping(model) ==
    [ status            |-> "ok",
      current_state     |-> model.initial_state,
      current_state_id  |-> 1,
      prism_states      |-> << from_state([i \in 1..Len(model.initial_state) |-> 0 - 1],
                                          0, "SINK", <<>>) >>,
      prism_transitions |-> <<>>,
      seed_trace        |-> <<>>,
      state_trie        |-> insert_if_not_exists(VasTrieNodeNew, model.initial_state, 1).trie ]

\* cycle_commute, lines 197-253: one transition name of a trace line.
\* status "error" is the early return after error!, "panic" the index out of
\* bounds of prism_states[current_state_id].
SeedTransition(model, c, transition_name) ==
    IF c.status # "ok" THEN c
    ELSE
    LET transition == get_transition_from_name(model, transition_name)
    IN  IF transition = None THEN [c EXCEPT !.status = "error"]
        ELSE
        LET t             == transition.some
            next_state    == VecAdd(c.current_state, t.update_vector)
            r             == insert_if_not_exists(c.state_trie, next_state,
                                                  c.current_state_id + 1)
            next_state_id == IF r.ret = None THEN c.current_state_id + 1 ELSE r.ret.some
            states1       == IF r.ret = None
                             THEN Append(c.prism_states,
                                         from_state(next_state, rate_sum(model),
                                                    <<"State", c.current_state_id>>, <<>>))
                             ELSE c.prism_states
            c1            == [c EXCEPT !.state_trie = r.trie, !.prism_states = states1]
            this_transition ==
                PrismStyleExplicitTransition(c.current_state_id, next_state_id, get_sck_rate(t))
        IN  IF Negative(next_state) THEN [c EXCEPT !.status = "error"]
            ELSE IF c.current_state_id >= Len(states1)
            THEN [c1 EXCEPT !.status = "panic"]
            ELSE IF ~Contains(At(states1, c.current_state_id).next_states, next_state_id)
            THEN [c1 EXCEPT !.prism_states = PushNext(states1, c.current_state_id, next_state_id),
                            !.prism_transitions = Append(@, this_transition),
                            !.seed_trace = Append(@, this_transition),
                            !.current_state = next_state,
                            !.current_state_id = next_state_id]
            ELSE [c1 EXCEPT !.current_state = next_state,
                            !.current_state_id = next_state_id]

\* cycle_commute, lines 184-254: one line of the trace file
SeedLine(model, c, trace) ==
    IF c.status # "ok" THEN c
    ELSE FoldLeft(LAMBDA acc, name : SeedTransition(model, acc, name),
                  [c EXCEPT !.current_state = model.initial_state,
                            !.current_state_id = 1],
                  trace)

\* cycle_commute, lines 160-254: the state space of the trace file
Seed(model, file) ==
    FoldLeft(LAMBDA acc, trace : SeedLine(model, acc, trace), Bookkeeping(model), file)

\* commute, lines 309-328: the transitions enabled at the state of the first
\* edge of the trace; the loop over the trace resets current_state to that
\* state before every retain.
UniversallyEnabled(model, states, trace) ==
    LET initial_state_vector == At(states, trace[1].from_state).state_vector
        Enabled(current_state) ==
            SelectSeq(model.transitions, LAMBDA t : enabled_vector(t, current_state))
    IN  FoldLeft(LAMBDA universally, _transition :
                    SelectSeq(universally,
                              LAMBDA t : Contains(Enabled(initial_state_vector), t)),
                 Enabled(initial_state_vector), trace)

\* commute: w holds status, prism_states, state_trie, prism_transitions.
\* CommuteFire is the double loop of lines 341-392 from the i-th edge of the
\* trace and the j-th universally enabled transition on.
RECURSIVE commute(_, _, _, _, _)
RECURSIVE CommuteFire(_, _, _, _, _, _, _, _)
commute(model, w, trace, depth, max_depth) ==
    IF w.status # "ok" THEN w
    ELSE IF depth >= max_depth THEN w
    ELSE IF trace = <<>> THEN [w EXCEPT !.status = "panic"]
    ELSE CommuteFire(model, w, trace,
                     UniversallyEnabled(model, w.prism_states, trace),
                     1, 1, depth, max_depth)

CommuteFire(model, w, trace, universally_enabled_transitions, i, j, depth, max_depth) ==
    IF w.status # "ok" \/ i > Len(trace) THEN w
    ELSE IF j > Len(universally_enabled_transitions)
    THEN CommuteFire(model, w, trace, universally_enabled_transitions,
                     i + 1, 1, depth, max_depth)
    ELSE
    LET state_id      == trace[i].from_state
        state_vector  == At(w.prism_states, state_id).state_vector
        transition    == universally_enabled_transitions[j]
        next_state    == VecAdd(state_vector, transition.update_vector)
        r             == insert_if_not_exists(w.state_trie, next_state, Len(w.prism_states))
        next_state_id == IF r.ret = None THEN Len(w.prism_states) ELSE r.ret.some
        states1       == IF r.ret = None
                         THEN Append(w.prism_states,
                                     from_state(next_state, rate_sum(model),
                                                <<"State", next_state_id>>, <<>>))
                         ELSE w.prism_states
        w1            == [w EXCEPT !.state_trie = r.trie, !.prism_states = states1]
        new_transition ==
            PrismStyleExplicitTransition(state_id, next_state_id, get_sck_rate(transition))
        w2            == [w1 EXCEPT !.prism_states = PushNext(states1, state_id, next_state_id),
                                    !.prism_transitions = Append(@, new_transition)]
        new_trace     == Append(SubSeq(trace, 1, i), new_transition)
    IN  IF Negative(next_state)
        THEN CommuteFire(model, w, trace, universally_enabled_transitions,
                         i, j + 1, depth, max_depth)
        ELSE IF ~Contains(At(states1, state_id).next_states, next_state_id)
        THEN CommuteFire(model, commute(model, w2, new_trace, depth + 1, max_depth),
                         trace, universally_enabled_transitions, i, j + 1, depth, max_depth)
        ELSE CommuteFire(model, w1, trace, universally_enabled_transitions,
                         i, j + 1, depth, max_depth)

\* Itertools::combinations_with_replacement over the indices lo..n-1, in the
\* order the iterator yields them
RECURSIVE combinations_with_replacement(_, _, _)
combinations_with_replacement(lo, n, k) ==
    IF k = 0 THEN << <<>> >>
    ELSE IF lo >= n THEN <<>>
    ELSE LET rest == combinations_with_replacement(lo, n, k - 1)
         IN  [c \in 1..Len(rest) |-> <<lo>> \o rest[c]]
                 \o combinations_with_replacement(lo + 1, n, k)

\* Itertools::permutations of all the elements, in the order of the positions
RECURSIVE permutations(_)
permutations(s) ==
    IF s = <<>> THEN << <<>> >>
    ELSE Flatten([i \in 1..Len(s) |->
            LET rest == permutations(SubSeq(s, 1, i - 1) \o SubSeq(s, i + 1, Len(s)))
            IN  [p \in 1..Len(rest) |-> <<s[i]>> \o rest[p]]])

\* Itertools::unique: the first occurrence of every element
unique(s) ==
    FoldLeft(LAMBDA acc, x : IF Contains(acc, x) THEN acc ELSE Append(acc, x), <<>>, s)

\* the sum of the update vectors of a list of transition indices
sum_update(model, cycle) ==
    FoldLeft(LAMBDA acc, idx : VecAdd(acc, At(model.transitions, idx).update_vector),
             At(model.transitions, cycle[1]).update_vector, Tail(cycle))

\* add_cycles, lines 439-448: the componentwise minimum of the running sums
\* of the update vectors, taken in the order of the multiset
min_vector(model, cycle) ==
    LET first == At(model.transitions, cycle[1]).update_vector
        acc0  == [min |-> first, running_sum |-> first]
        Step(acc, idx) ==
            LET running_sum == VecAdd(acc.running_sum, At(model.transitions, idx).update_vector)
            IN  [ min |-> [i \in 1..Len(acc.min) |->
                            IF running_sum[i] < acc.min[i] THEN running_sum[i] ELSE acc.min[i]],
                  running_sum |-> running_sum ]
    IN  FoldLeft(Step, acc0, Tail(cycle)).min

\* add_cycles, lines 459-506: the transitions of perm from the k-th on.  An
\* ordering fired to its end is written to cycle_log with the id it started
\* from, the id it ended at and whether its last step made a new state.
RECURSIVE FirePermutation(_, _, _, _, _, _, _, _)
FirePermutation(model, w, perm, k, current_state, prev_state_id, state_id, created) ==
    IF w.status # "ok" THEN w
    ELSE IF k > Len(perm)
    THEN [w EXCEPT !.cycle_log = Append(@, [ state_id |-> state_id, perm |-> perm,
                                             end_id |-> prev_state_id,
                                             created |-> created ])]
    ELSE
    LET transition    == At(model.transitions, perm[k])
        next_state    == VecAdd(current_state, transition.update_vector)
        r             == insert_if_not_exists(w.state_trie, next_state, Len(w.prism_states))
        next_state_id == IF r.ret = None THEN Len(w.prism_states) ELSE r.ret.some
        states1       == IF r.ret = None
                         THEN Append(w.prism_states,
                                     from_state(next_state, rate_sum(model),
                                                <<"State", next_state_id>>, <<>>))
                         ELSE w.prism_states
        w1            == [w EXCEPT !.state_trie = r.trie, !.prism_states = states1]
        new_transition ==
            PrismStyleExplicitTransition(prev_state_id, next_state_id, get_sck_rate(transition))
        w2            == [w1 EXCEPT !.prism_states = PushNext(states1, prev_state_id, next_state_id),
                                    !.prism_transitions = Append(@, new_transition)]
    IN  IF Negative(next_state) THEN w
        ELSE IF prev_state_id >= Len(states1) THEN [w1 EXCEPT !.status = "panic"]
        ELSE FirePermutation(model,
                 IF ~Contains(At(states1, prev_state_id).next_states, next_state_id)
                 THEN w2 ELSE w1,
                 perm, k + 1, next_state, next_state_id, state_id, r.ret = None)

\* add_cycles, lines 437-507: one ordering of a cycle at one state
FireCycleAt(model, w, cycle, perm, state_id) ==
    IF w.status # "ok" THEN w
    ELSE
    LET state_vector == At(w.prism_states, state_id).state_vector
        m            == min_vector(model, cycle)
        enabled      == \A i \in 1..Len(state_vector) : state_vector[i] + m[i] >= 0
    IN  IF ~enabled THEN w
        ELSE FirePermutation(model, w, perm, 1, state_vector, state_id, state_id, FALSE)

\* the ids first..last in a Vec
RECURSIVE Range(_, _)
Range(first, last) == IF first > last THEN <<>> ELSE <<first>> \o Range(first + 1, last)

\* add_cycles, lines 409-510: one multiset of transition indices
AddCycle(model, w, cycle) ==
    IF w.status # "ok" THEN w
    ELSE IF \E i \in 1..Len(model.variable_names) : sum_update(model, cycle)[i] # 0 THEN w
    ELSE
    LET cycle_permutations == unique(permutations(cycle))
    IN  FoldLeft(LAMBDA acc, state_id :
                    FoldLeft(LAMBDA acc2, perm : FireCycleAt(model, acc2, cycle, perm, state_id),
                             acc, cycle_permutations),
                 w, Range(1, Len(w.prism_states) - 1))

\* add_cycles
add_cycles(model, w, max_cycle_length) ==
    FoldLeft(LAMBDA acc, cycle_len :
                FoldLeft(LAMBDA acc2, cycle : AddCycle(model, acc2, cycle),
                         acc,
                         combinations_with_replacement(0, Len(model.transitions), cycle_len)),
             w, Range(2, max_cycle_length))

\* cycle_commute, lines 274-289: the transitions to the absorbing state
SinkRate(states, transitions, i) ==
    At(states, i).total_rate -
        FoldLeft(LAMBDA acc, tr :
                    IF tr.to_state # 0 /\ Contains(At(states, i).next_states, tr.to_state)
                    THEN acc + tr.rate ELSE acc,
                 0, transitions)

AddSinkTransitions(states, transitions) ==
    FoldLeft(LAMBDA acc, i :
                Append(acc, PrismStyleExplicitTransition(i, 0, SinkRate(states, acc, i))),
             transitions, Range(1, Len(states) - 1))

\* The trace files: at most MaxSeedLines lines of at most MaxSeedLen names.
TransitionNames == {"t1", "t2"}
RECURSIVE SeqsUpTo(_, _)
SeqsUpTo(S, n) ==
    IF n = 0 THEN { <<>> }
    ELSE SeqsUpTo(S, n - 1) \cup { Append(s, x) : s \in SeqsUpTo(S, n - 1), x \in S }
TraceLines == SeqsUpTo(TransitionNames, MaxSeedLen)
TraceFiles == SeqsUpTo(TraceLines, MaxSeedLines)

CcInit ==
    /\ vas \in Models
    /\ trace_file \in TraceFiles
    /\ cc_pc = "start"
    /\ prism_states = <<>>
    /\ state_trie = None
    /\ prism_transitions = <<>>
    /\ seed_trace = <<>>
    /\ cycle_log = <<>>
    /\ DgIdle
    /\ TrieIdle
    /\ RlIdle
    /\ BmcIdle
    /\ TtIdle
    /\ RwIdle

\* cycle_commute, lines 160-254
CcSeed ==
    /\ cc_pc = "start"
    /\ LET c == Seed(vas, trace_file)
       IN  /\ cc_pc' = IF c.status = "ok" THEN "seeded" ELSE c.status
           /\ prism_states' = c.prism_states
           /\ state_trie' = c.state_trie
           /\ prism_transitions' = c.prism_transitions
           /\ seed_trace' = c.seed_trace
    /\ UNCHANGED <<vas, trace_file, cycle_log, dg_vars, trie_vars, rl_vars, bmc_vars, tt_vars, rw_vars>>

Work ==
    [ status            |-> "ok",
      prism_states      |-> prism_states,
      state_trie        |-> state_trie,
      prism_transitions |-> prism_transitions,
      cycle_log         |-> cycle_log ]

\* cycle_commute, lines 256-264
CcCommute ==
    /\ cc_pc = "seeded"
    /\ LET w == commute(vas, Work, seed_trace, 0, MAX_DEPTH)
       IN  /\ cc_pc' = IF w.status = "ok" THEN "commuted" ELSE w.status
           /\ prism_states' = w.prism_states
           /\ state_trie' = w.state_trie
           /\ prism_transitions' = w.prism_transitions
    /\ UNCHANGED <<vas, trace_file, seed_trace, cycle_log, dg_vars, trie_vars, rl_vars, bmc_vars, tt_vars, rw_vars>>

\* cycle_commute, lines 266-272
CcAddCycles ==
    /\ cc_pc = "commuted"
    /\ LET w == add_cycles(vas, Work, MAX_CYCLE_LENGTH)
       IN  /\ cc_pc' = IF w.status = "ok" THEN "cycled" ELSE w.status
           /\ prism_states' = w.prism_states
           /\ state_trie' = w.state_trie
           /\ prism_transitions' = w.prism_transitions
           /\ cycle_log' = w.cycle_log
    /\ UNCHANGED <<vas, trace_file, seed_trace, dg_vars, trie_vars, rl_vars, bmc_vars, tt_vars, rw_vars>>

\* cycle_commute, lines 273-291
CcSinkTransitions ==
    /\ cc_pc = "cycled"
    /\ prism_transitions' = AddSinkTransitions(prism_states, prism_transitions)
    /\ cc_pc' = "done"
    /\ UNCHANGED <<vas, trace_file, prism_states, state_trie, seed_trace, cycle_log,
                   dg_vars, trie_vars, rl_vars, bmc_vars, tt_vars, rw_vars>>

CcNext == CcSeed \/ CcCommute \/ CcAddCycles \/ CcSinkTransitions

SpecCC == CcInit /\ [][CcNext]_vars

\* The state space cycle_commute writes: the .sta file gives entry i of the
\* state table the id i, the .tra file lists the edges by these ids.
StateIds(states) == 1..(Len(states) - 1)

HasEdge(states, transitions, source, destination) ==
    \E k \in DOMAIN transitions :
        /\ transitions[k].from_state \in StateIds(states)
        /\ transitions[k].to_state \in StateIds(states)
        /\ At(states, transitions[k].from_state).state_vector = source
        /\ At(states, transitions[k].to_state).state_vector = destination

\* the state after the first k transitions of a list of transition indices
RECURSIVE StateAfterIndices(_, _, _, _)
StateAfterIndices(model, state, ordering, k) ==
    IF k = 0 THEN state
    ELSE VecAdd(StateAfterIndices(model, state, ordering, k - 1),
                At(model.transitions, ordering[k]).update_vector)

\* the orderings of the cycle candidates: the lists of 2..MAX_CYCLE_LENGTH
\* transitions whose updates sum to zero
CycleOrderings(model) ==
    { o \in UNION { [1..len -> 0..(Len(model.transitions) - 1)] : len \in 2..MAX_CYCLE_LENGTH } :
        StateAfterIndices(model, Zeros(Len(model.variable_names)), o, Len(o))
            = Zeros(Len(model.variable_names)) }

\* no component becomes negative while the ordering is fired from the state
Fireable(model, state, ordering) ==
    \A k \in 1..Len(ordering) : ~Negative(StateAfterIndices(model, state, ordering, k))

\* C13: after add_cycles, for every ordering of every cycle candidate and
\* every state that existed and from which the ordering can be fired without
\* a component becoming negative, all edges of the ordering starting at that
\* state are in the state space.
C13_CycleEdgesAdded ==
    [][ (cc_pc = "commuted" /\ cc_pc' = "cycled") =>
            \A o \in CycleOrderings(vas), id \in StateIds(prism_states) :
                Fireable(vas, At(prism_states, id).state_vector, o) =>
                    \A k \in 1..Len(o) :
                        HasEdge(prism_states', prism_transitions',
                                StateAfterIndices(vas, At(prism_states, id).state_vector, o, k - 1),
                                StateAfterIndices(vas, At(prism_states, id).state_vector, o, k))
      ]_vars

\* the states a trace visits from the initial state, the initial and the
\* last state included
RECURSIVE StateAfterNames(_, _, _, _)
StateAfterNames(model, state, trace, k) ==
    IF k = 0 THEN state
    ELSE VecAdd(StateAfterNames(model, state, trace, k - 1),
                get_transition_from_name(model, trace[k]).some.update_vector)

VisitedStates(model, trace) ==
    { StateAfterNames(model, model.initial_state, trace, k) : k \in 0..Len(trace) }

\* the transitions enabled at every state of a set
EnabledAtAll(model, states) ==
    { j \in 1..Len(model.transitions) :
        \A s \in states : enabled_vector(model.transitions[j], s) }

\* C14: after commute on a seed trace, for every state s the trace visits
\* (the initial and the last state included) and every universally enabled
\* transition U, the state s + U.update is in the state space with an edge
\* from s to it.
C14_CommuteClosure ==
    (cc_pc = "commuted" /\ Len(trace_file) = 1) =>
        \A s \in VisitedStates(vas, trace_file[1]) :
            \A j \in EnabledAtAll(vas, VisitedStates(vas, trace_file[1])) :
                HasEdge(prism_states, prism_transitions,
                        s, VecAdd(s, vas.transitions[j].update_vector))

\* C15: an ordering of a cycle candidate that add_cycles fires to its end
\* ends at the id of the state it started from, and its last step creates no
\* state.
C15_CycleReturnsToStart ==
    \A k \in DOMAIN cycle_log :
        /\ cycle_log[k].end_id = cycle_log[k].state_id
        /\ ~cycle_log[k].created

\* C17: the sink edge of every non-sink state i has the rate total_rate(i)
\* minus the sum of the rates of the non-sink edges whose source is i.
C17_SinkRateOwnEdges ==
    cc_pc = "done" =>
        \A i \in StateIds(prism_states) :
            \E k \in DOMAIN prism_transitions :
                /\ prism_transitions[k].from_state = i
                /\ prism_transitions[k].to_state = 0
                /\ prism_transitions[k].rate =
                       At(prism_states, i).total_rate -
                           FoldLeft(LAMBDA acc, tr :
                                       IF tr.to_state # 0 /\ tr.from_state = i
                                       THEN acc + tr.rate ELSE acc,
                                    0, prism_transitions)

\* the ids of the transitions that occur in the dependency graph
GraphTransitionIds ==
    { get_transitions(dg_result.graph)[j].transition_id :
        j \in 1..Len(get_transitions(dg_result.graph)) }

\* C21: the trimmed model contains each transition of the dependency graph
\* exactly once, however many nodes carry it, and no other transition; no
\* two of its transitions share an id or a name.
C21_TrimmedTransitionsOnce ==
    dg_pc = "trimmed" =>
        LET ts == trimmed_model.transitions
        IN  /\ \A id \in GraphTransitionIds :
                  Cardinality({ j \in 1..Len(ts) : ts[j].transition_id = id }) = 1
            /\ \A j \in 1..Len(ts) : ts[j].transition_id \in GraphTransitionIds
            /\ \A j, k \in 1..Len(ts) :
                  j # k => /\ ts[j].transition_id # ts[k].transition_id
                           /\ ts[j].transition_name # ts[k].transition_name

\* C22: the target of the trimmed model designates a retained variable with
\* the name of the original target variable, and the target value is
\* unchanged, whatever the dependency graph.
C22_TrimmedTargetVariable ==
    dg_pc = "trimmed" =>
        /\ trimmed_model.target.variable_index + 1 \in 1..Len(trimmed_model.variable_names)
        /\ trimmed_model.variable_names[trimmed_model.target.variable_index + 1]
               = vas.variable_names[vas.target.variable_index + 1]
        /\ trimmed_model.target.target_value = vas.target.target_value

\* the ids held by the leaves of a state trie
RECURSIVE TrieLeafIds(_)
TrieLeafIds(node) ==
    IF node.leaf THEN {node.id}
    ELSE UNION { TrieLeafIds(node.children[v]) : v \in DOMAIN node.children }

\* C24: id 0 is never inserted into a state trie: neither the trie of the
\* explicit model of add_rl_traces nor the trie of cycle_commute holds it.
C24_IdZeroNeverInserted ==
    /\ rl_pc \notin {"idle", "start"} => 0 \notin TrieLeafIds(explicit_model.state_trie)
    /\ state_trie # None => 0 \notin TrieLeafIds(state_trie)

\* the pairs <<vector, id>> a state trie holds below `node`, reached by `prefix`
RECURSIVE TrieEntries(_, _)
TrieEntries(node, prefix) ==
    IF node.leaf THEN { <<prefix, node.id>> }
    ELSE UNION { TrieEntries(node.children[v], Append(prefix, v)) : v \in DOMAIN node.children }

\* C25: in cycle_commute every vector the state trie records with id i is
\* the vector of entry i of the state table, entry 1 being the initial state.
C25_TrieIdsAreTableEntries ==
    cc_pc \in {"seeded", "commuted", "cycled", "done"} =>
        /\ Len(prism_states) >= 2
        /\ At(prism_states, 1).state_vector = vas.initial_state
        /\ \A e \in TrieEntries(state_trie, <<>>) :
              /\ e[2] < Len(prism_states)
              /\ At(prism_states, e[2]).state_vector = e[1]

\* C26: the universally enabled set commute computes for the seed trace
\* holds only transitions that are enabled at every state the trace visits;
\* the source states of the edges of the trace are among these.
C26_UniversallyEnabledEverywhere ==
    (cc_pc = "seeded" /\ seed_trace # <<>>) =>
        LET universally == UniversallyEnabled(vas, prism_states, seed_trace)
        IN  \A j \in 1..Len(universally), k \in 1..Len(seed_trace) :
                enabled_vector(universally[j],
                               At(prism_states, seed_trace[k].from_state).state_vector)

\* the sum of the rates of the edges of a transition table at the indices in `edges`
RECURSIVE SumEdgeRates(_, _)
SumEdgeRates(transitions, edges) ==
    IF edges = {} THEN 0
    ELSE LET j == CHOOSE x \in edges : TRUE
         IN  transitions[j].rate + SumEdgeRates(transitions, edges \ {j})

\* the total outgoing rate recorded for the state with the given id
TotalOutgoingRate(em, id) ==
    LET k == CHOOSE x \in 1..Len(em.states) : em.states[x].state_id = id
    IN  em.states[k].total_outgoing_rate

\* What storing a trace may change in the transition table `before`: every
\* edge that is not a sink edge keeps its rate, and the sink edge of a state
\* s loses the rates of the new edges leaving s and nothing else.
EdgesFramed(before, after) ==
    /\ \A j \in 1..Len(before.transitions) :
          before.transitions[j].to_state # 0 => after.transitions[j] = before.transitions[j]
    /\ \A j \in 1..Len(after.transitions) :
          after.transitions[j].to_state = 0 =>
              LET s    == after.transitions[j].from_state
                  base == IF j <= Len(before.transitions) THEN before.transitions[j].rate
                          ELSE TotalOutgoingRate(after, s)
                  new  == { k \in (Len(before.transitions) + 1)..Len(after.transitions) :
                              /\ after.transitions[k].from_state = s
                              /\ after.transitions[k].to_state # 0 }
              IN  after.transitions[j].rate = base - SumEdgeRates(after.transitions, new)

\* C27: when store_explicit_trace adds a new edge with rate r leaving state
\* s, the sink edge of s loses exactly r and the rate of every other edge,
\* in particular of every edge whose source is not s, is unchanged.
C27_NewEdgeFramesSinkRate ==
    [][ (rl_pc = "loop" /\ rl_i' = rl_i + 1) => EdgesFramed(explicit_model, explicit_model') ]_vars


\* init at time 0 and the transition formula at times 0..k-1
RECURSIVE UnrolledTo(_, _, _)
UnrolledTo(model, bits, k) ==
    IF k = 0 THEN { << InitFormula(model, bits) >> }
    ELSE AndTransitionAt(model, bits, UnrolledTo(model, bits, k - 1), k - 1)

\* the target formula is satisfiable after exactly k applications of the
\* transition formula from the initial state
TargetSatAfter(model, bits, k) ==
    Sat(AndTargetAt(model, bits, UnrolledTo(model, bits, k), k))

\* C31: run_bmc returns the smallest k >= 0 for which the target formula is
\* satisfiable after exactly k applications of the transition formula from
\* the initial state, and the returned formula is the init formula at time
\* 0, the transition formula at times 0..k-1 and the target formula at k.
C31_RunBmcSmallestDepth ==
    bmc_pc = "bmc_returned" =>
        /\ TargetSatAfter(vas, NUM_BITS, bmc_k.some)
        /\ \A j \in 0..(bmc_k.some - 1) : ~TargetSatAfter(vas, NUM_BITS, j)
        /\ run_bmc(vas, NUM_BITS, MAX_BMC_STEPS).formula
              = AndTargetAt(vas, NUM_BITS, UnrolledTo(vas, NUM_BITS, bmc_k.some), bmc_k.some)


\* C32: in a constructed dependency graph no transition name occurs twice on
\* any root-to-leaf path: the name of every node differs from the name of
\* each of its ancestors, the node it was created under included.
C32_NoNameTwiceOnPath ==
    dg_pc \in {"graph", "trimmed"} =>
        LET nodes == GraphNodes(dg_result.graph.root)
        IN  \A n \in 1..Len(nodes) :
                \A j \in 1..Len(nodes[n].parents) :
                    nodes[n].parents[j].transition_name
                        # nodes[n].transition.transition_name


----------------------------------------------------------------------------
(* The f64 arithmetic of the trace builder (builder/ragtimer/rl_traces.rs, *)
(* RewardValue and ProbabilityOrRate are f64).  A value is                 *)
(*   [k |-> "fin", s, e, m]   the number s * m * 2^e with s = 1 or -1,     *)
(*   [k |-> "inf", s]         the infinity of that sign, or                *)
(*   [k |-> "nan"].                                                        *)
(* m is a natural number below 2^53, written as the sequence of its       *)
(* digits to the base BASE, least significant first, without a leading    *)
(* zero digit; m is at least 2^52 unless e is the smallest exponent        *)
(* (a subnormal).  Zero is F64Zero: the sign of a zero is not kept.  The   *)
(* divisors of the trace builder are sums that start at 0.0, lengths and   *)
(* numbers tested to be above zero, none of which is -0.0, and no other    *)
(* operation it uses tells 0.0 from -0.0.  Every operation rounds to       *)
(* nearest, ties to even, as the hardware does.                            *)

\* the bits of a digit of a mantissa; the results do not depend on it
DIGIT_BITS == 14
BASE == 2 ^ DIGIT_BITS

\* f64::MANTISSA_DIGITS, f64::MIN_EXP and f64::MAX_EXP: a normal number is
\* at least 2^(MIN_EXP - 1) and every finite number is below 2^MAX_EXP
MANTISSA_DIGITS == 53
MIN_EXP == -1021
MAX_EXP == 1024
\* the exponent of the last bit of a subnormal number
MIN_SUBNORMAL_EXP == MIN_EXP - MANTISSA_DIGITS

MinOf(a, b) == IF a <= b THEN a ELSE b
\* the larger of two numbers
MaxOf(a, b) == IF a >= b THEN a ELSE b

\* Body of the value of an expression, and of the values of two: a value
\* is computed once, however often the body refers to it
Bind(value, Body(_)) == CHOOSE result \in { Body(x) : x \in {value} } : TRUE
Bind2(left, right, Body(_, _)) ==
    CHOOSE result \in { Body(x, y) : x \in {left}, y \in {right} } : TRUE

BigTrim(a) ==
    Bind(a, LAMBDA x :
        LET used == { i \in 1..Len(x) : x[i] # 0 }
        IN  IF used = {} THEN <<>>
            ELSE SubSeq(x, 1, CHOOSE i \in used : \A j \in used : j <= i))

RECURSIVE BigFromInt(_)
BigFromInt(n) == IF n = 0 THEN <<>> ELSE <<n % BASE>> \o BigFromInt(n \div BASE)

Digit(a, i) == IF i <= Len(a) THEN a[i] ELSE 0

RECURSIVE BitLength(_)
BitLength(n) == IF n = 0 THEN 0 ELSE 1 + BitLength(n \div 2)

BigBitLen(a) ==
    IF a = <<>> THEN 0 ELSE (Len(a) - 1) * DIGIT_BITS + BitLength(a[Len(a)])

RECURSIVE BigAddFrom(_, _, _, _)
BigAddFrom(a, b, i, carry) ==
    IF i > Len(a) /\ i > Len(b) THEN (IF carry = 0 THEN <<>> ELSE <<carry>>)
    ELSE LET sum == Digit(a, i) + Digit(b, i) + carry
         IN  <<sum % BASE>> \o BigAddFrom(a, b, i + 1, sum \div BASE)

BigAdd(a, b) == Bind2(a, b, LAMBDA x, y : BigAddFrom(x, y, 1, 0))

\* a - b for a >= b
RECURSIVE BigSubFrom(_, _, _, _)
BigSubFrom(a, b, i, borrow) ==
    IF i > Len(a) THEN <<>>
    ELSE LET diff == a[i] - Digit(b, i) - borrow
         IN  IF diff < 0 THEN <<diff + BASE>> \o BigSubFrom(a, b, i + 1, 1)
             ELSE <<diff>> \o BigSubFrom(a, b, i + 1, 0)

BigSub(a, b) == Bind2(a, b, LAMBDA x, y : BigTrim(BigSubFrom(x, y, 1, 0)))

\* -1, 0 or 1 as a is below, equal to or above b
RECURSIVE BigCmpAt(_, _, _)
BigCmpAt(a, b, i) ==
    IF i = 0 THEN 0
    ELSE IF a[i] > b[i] THEN 1
    ELSE IF a[i] < b[i] THEN -1
    ELSE BigCmpAt(a, b, i - 1)

BigCmp(a, b) ==
    Bind2(a, b, LAMBDA x, y :
        IF Len(x) > Len(y) THEN 1
        ELSE IF Len(x) < Len(y) THEN -1
        ELSE BigCmpAt(x, y, Len(x)))

\* a * n for a natural number n below 2^16
RECURSIVE BigMulSmallFrom(_, _, _, _)
BigMulSmallFrom(a, n, i, carry) ==
    IF i > Len(a) THEN BigFromInt(carry)
    ELSE LET product == a[i] * n + carry
         IN  <<product % BASE>> \o BigMulSmallFrom(a, n, i + 1, product \div BASE)

BigMulSmall(a, n) ==
    Bind2(a, n, LAMBDA x, y : IF y = 0 THEN <<>> ELSE BigMulSmallFrom(x, y, 1, 0))

\* a * BASE^count
BigShiftDigits(a, count) ==
    Bind(a, LAMBDA x : IF x = <<>> THEN <<>> ELSE [i \in 1..count |-> 0] \o x)

RECURSIVE BigMulFrom(_, _, _)
BigMulFrom(a, b, j) ==
    IF j > Len(b) THEN <<>>
    ELSE BigAdd(BigShiftDigits(BigMulSmall(a, b[j]), j - 1), BigMulFrom(a, b, j + 1))

BigMul(a, b) == Bind2(a, b, LAMBDA x, y : BigMulFrom(x, y, 1))

\* a * 2^bits
BigShl(a, bits) ==
    BigShiftDigits(BigMulSmall(a, 2 ^ (bits % DIGIT_BITS)), bits \div DIGIT_BITS)

\* a \div n and a % n for a positive n below 2^16
RECURSIVE BigDivSmallAt(_, _, _, _)
BigDivSmallAt(a, n, i, rem) ==
    IF i = 0 THEN [q |-> <<>>, r |-> rem]
    ELSE LET cur == rem * BASE + a[i]
         IN  Bind(BigDivSmallAt(a, n, i - 1, cur % n), LAMBDA rest :
                 [q |-> rest.q \o <<cur \div n>>, r |-> rest.r])

BigDivSmall(a, n) ==
    Bind2(a, n, LAMBDA x, y :
        Bind(BigDivSmallAt(x, y, Len(x), 0), LAMBDA res :
            [q |-> BigTrim(res.q), r |-> res.r]))

\* a \div 2^bits, and whether a bit that is 1 was shifted out
BigShr(a, bits) ==
    Bind2(a, bits \div DIGIT_BITS, LAMBDA x, count :
        IF count >= Len(x) THEN [q |-> <<>>, sticky |-> x # <<>>]
        ELSE Bind(BigDivSmall(SubSeq(x, count + 1, Len(x)), 2 ^ (bits % DIGIT_BITS)),
                  LAMBDA res :
                      [q |-> res.q,
                       sticky |-> res.r # 0 \/ \E i \in 1..count : x[i] # 0]))

\* the largest digit q with d * q <= cur, for cur < d * BASE: the estimate
\* from the leading digits is never too small
RECURSIVE QuotientDigitFrom(_, _, _)
QuotientDigitFrom(cur, d, q) ==
    IF BigCmp(BigMulSmall(d, q), cur) <= 0 THEN q ELSE QuotientDigitFrom(cur, d, q - 1)

QuotientDigit(cur, d) ==
    LET top == Digit(cur, Len(d) + 1) * BASE + Digit(cur, Len(d))
    IN  QuotientDigitFrom(cur, d, MinOf(BASE - 1, top \div d[Len(d)]))

\* long division from digit i of a downwards, rem being what is left of
\* the digits above
RECURSIVE BigDivAt(_, _, _, _)
BigDivAt(a, d, i, rem) ==
    IF i = 0 THEN [q |-> <<>>, r |-> rem]
    ELSE Bind(BigTrim(<<a[i]>> \o rem), LAMBDA cur :
         Bind(QuotientDigit(cur, d), LAMBDA q_digit :
         Bind(BigDivAt(a, d, i - 1, BigSub(cur, BigMulSmall(d, q_digit))), LAMBDA rest :
             [q |-> rest.q \o <<q_digit>>, r |-> rest.r])))

\* a \div d for d # 0, and whether the division is exact; both are scaled
\* so that the leading digit of the divisor is at least BASE / 2
BigDiv(a, d) ==
    Bind(d, LAMBDA y :
    Bind2(BigShl(a, DIGIT_BITS - BitLength(y[Len(y)])),
          BigShl(y, DIGIT_BITS - BitLength(y[Len(y)])), LAMBDA scaled, divisor :
    Bind(BigDivAt(scaled, divisor, Len(scaled), <<>>), LAMBDA res :
        [q |-> BigTrim(res.q), exact |-> res.r = <<>>])))

F64Fin(s, e, m) == [k |-> "fin", s |-> s, e |-> e, m |-> m]
F64Zero == F64Fin(1, 0, <<>>)
F64Inf(s) == [k |-> "inf", s |-> s]
F64NaN == [k |-> "nan"]

\* F64Round of a number that is dropping `drop` bits, drop > 0
F64RoundOff(s, big, e, sticky, drop) ==
    Bind(BigShr(big, drop - 1), LAMBDA with_round_bit :
    Bind(BigShr(with_round_bit.q, 1).q, LAMBDA kept :
    Bind(IF /\ Digit(with_round_bit.q, 1) % 2 = 1
            /\ \/ with_round_bit.sticky
               \/ sticky
               \/ Digit(kept, 1) % 2 = 1
         THEN BigAdd(kept, <<1>>) ELSE kept, LAMBDA rounded :
    Bind2(IF BigBitLen(rounded) > MANTISSA_DIGITS THEN BigShr(rounded, 1).q ELSE rounded,
          e + drop + (IF BigBitLen(rounded) > MANTISSA_DIGITS THEN 1 ELSE 0),
          LAMBDA m, e_out :
              IF m = <<>> THEN F64Zero
              ELSE IF BigBitLen(m) + e_out > MAX_EXP THEN F64Inf(s)
              ELSE F64Fin(s, e_out, m)))))

\* the f64 nearest to s * (big + fraction) * 2^e, ties to even, where the
\* fraction is 0 or, if `sticky`, strictly between 0 and 1; big has 55 bits
\* or more if `sticky`
F64Round(s, big, e, sticky) ==
    Bind2(big, e, LAMBDA b, exponent :
        IF b = <<>> THEN F64Zero
        ELSE LET bits == BigBitLen(b)
                 drop == MaxOf(bits - MANTISSA_DIGITS, MIN_SUBNORMAL_EXP - exponent)
                 up == MinOf(MANTISSA_DIGITS - bits, exponent - MIN_SUBNORMAL_EXP)
             IN  IF drop > 0 THEN F64RoundOff(s, b, exponent, sticky, drop)
                 ELSE IF bits + exponent > MAX_EXP THEN F64Inf(s)
                 ELSE F64Fin(s, exponent - up, BigShl(b, up)))

\* the mantissa `kept` at exponent e as an f64: a mantissa of one bit too
\* many is halved, which is exact as it is a power of two then
F64Pack(s, kept, e) ==
    Bind2(IF BigBitLen(kept) > MANTISSA_DIGITS THEN BigShr(kept, 1).q ELSE kept,
          e + (IF BigBitLen(kept) > MANTISSA_DIGITS THEN 1 ELSE 0),
          LAMBDA m, e_out :
              IF m = <<>> THEN F64Zero
              ELSE IF BigBitLen(m) + e_out > MAX_EXP THEN F64Inf(s)
              ELSE F64Fin(s, e_out, m))

\* the two f64 next to s * (big + fraction) * 2^e, the fraction strictly
\* between 0 and 1 and big of 55 bits or more: the one towards zero and
\* the one away from it
F64Neighbours(s, big, e) ==
    Bind2(big, e, LAMBDA b, exponent :
    Bind(MaxOf(BigBitLen(b) - MANTISSA_DIGITS, MIN_SUBNORMAL_EXP - exponent), LAMBDA drop :
    Bind(BigShr(b, drop).q, LAMBDA kept :
        { F64Pack(s, kept, exponent + drop),
          F64Pack(s, BigAdd(kept, <<1>>), exponent + drop) })))

\* n as f64
F64FromInt(n) ==
    Bind(n, LAMBDA x : F64Round(IF x < 0 THEN -1 ELSE 1, BigFromInt(Abs(x)), 0, FALSE))

F64One == F64FromInt(1)

F64IsZero(a) == a.k = "fin" /\ a.m = <<>>

\* -a
F64Neg(a) ==
    Bind(a, LAMBDA x : IF x.k = "nan" \/ F64IsZero(x) THEN x ELSE [x EXCEPT !.s = -x.s])

\* -1, 0 or 1 as the number is negative, zero or positive
F64Sign(a) == IF F64IsZero(a) THEN 0 ELSE a.s

\* -1, 0 or 1 as |a| is below, equal to or above |b|, neither being NaN
F64CmpAbs(a, b) ==
    IF a.k = "inf" THEN (IF b.k = "inf" THEN 0 ELSE 1)
    ELSE IF b.k = "inf" THEN -1
    ELSE IF a.m = <<>> THEN (IF b.m = <<>> THEN 0 ELSE -1)
    ELSE IF b.m = <<>> THEN 1
    ELSE LET top_a == BigBitLen(a.m) + a.e
             top_b == BigBitLen(b.m) + b.e
         IN  IF top_a > top_b THEN 1
             ELSE IF top_a < top_b THEN -1
             ELSE IF a.e >= b.e THEN BigCmp(BigShl(a.m, a.e - b.e), b.m)
             ELSE BigCmp(a.m, BigShl(b.m, b.e - a.e))

\* a < b, false if one is NaN
F64Less(a, b) ==
    Bind2(a, b, LAMBDA x, y :
        /\ x.k # "nan"
        /\ y.k # "nan"
        /\ IF F64Sign(x) # F64Sign(y) THEN F64Sign(x) < F64Sign(y)
           ELSE F64Sign(x) * F64CmpAbs(x, y) < 0)

\* a > 0.0 and a <= 0.0, both false of NaN
F64Positive(a) == Bind(a, LAMBDA x : x.k # "nan" /\ F64Sign(x) > 0)
F64NotPositive(a) == Bind(a, LAMBDA x : x.k # "nan" /\ F64Sign(x) <= 0)

\* the sum of two finite numbers other than zero, hi having the larger
\* exponent: lo is added digit for digit if it reaches within 64 bits of
\* hi, and is a fraction of the last bit otherwise
F64AddOrdered(hi, lo) ==
    LET near == hi.e - lo.e <= 64
        e == IF near THEN lo.e ELSE hi.e - 3
    IN  Bind2(IF near THEN BigShl(hi.m, hi.e - lo.e) ELSE BigShl(hi.m, 3),
              IF near THEN lo.m ELSE <<1>>, LAMBDA hi_m, lo_m :
        Bind(BigCmp(hi_m, lo_m), LAMBDA order :
            IF hi.s = lo.s
            THEN F64Round(hi.s, IF near THEN BigAdd(hi_m, lo_m) ELSE hi_m, e, ~near)
            ELSE IF order = 0 THEN F64Zero
            ELSE IF order > 0 THEN F64Round(hi.s, BigSub(hi_m, lo_m), e, ~near)
            ELSE F64Round(lo.s, BigSub(lo_m, hi_m), e, FALSE)))

\* a + b
F64Add(a, b) ==
    Bind2(a, b, LAMBDA x, y :
        IF x.k = "nan" \/ y.k = "nan" THEN F64NaN
        ELSE IF x.k = "inf" THEN (IF y.k = "inf" /\ y.s # x.s THEN F64NaN ELSE x)
        ELSE IF y.k = "inf" THEN y
        ELSE IF x.m = <<>> THEN y
        ELSE IF y.m = <<>> THEN x
        ELSE IF x.e >= y.e THEN F64AddOrdered(x, y)
        ELSE F64AddOrdered(y, x))

\* a * b
F64Mul(a, b) ==
    Bind2(a, b, LAMBDA x, y :
        IF x.k = "nan" \/ y.k = "nan" THEN F64NaN
        ELSE IF x.k = "inf" \/ y.k = "inf"
        THEN (IF F64IsZero(x) \/ F64IsZero(y) THEN F64NaN ELSE F64Inf(x.s * y.s))
        ELSE F64Round(x.s * y.s, BigMul(x.m, y.m), x.e + y.e, FALSE))

\* the quotient of two finite numbers other than zero, to 55 bits or more
F64DivFin(a, b) ==
    LET up == 55 + BigBitLen(b.m) - BigBitLen(a.m)
    IN  Bind(BigDiv(BigShl(a.m, up), b.m), LAMBDA res :
            F64Round(a.s * b.s, res.q, a.e - b.e - up, ~res.exact))

\* a / b
F64Div(a, b) ==
    Bind2(a, b, LAMBDA x, y :
        IF x.k = "nan" \/ y.k = "nan" THEN F64NaN
        ELSE IF x.k = "inf" THEN (IF y.k = "inf" THEN F64NaN ELSE F64Inf(x.s * y.s))
        ELSE IF y.k = "inf" THEN F64Zero
        ELSE IF y.m = <<>> THEN (IF x.m = <<>> THEN F64NaN ELSE F64Inf(x.s))
        ELSE IF x.m = <<>> THEN F64Zero
        ELSE F64DivFin(x, y))

\* the literal n / d of the source, d a power of ten
F64Literal(n, d) == F64Div(F64FromInt(n), F64FromInt(d))

\* Iterator::sum::<f64>: the numbers are added to 0.0 one after the other
RECURSIVE F64SumFrom(_, _)
F64SumFrom(acc, xs) ==
    IF xs = <<>> THEN acc ELSE F64SumFrom(F64Add(acc, xs[1]), Tail(xs))

F64Sum(xs) == Bind(xs, LAMBDA values : F64SumFrom(F64Zero, values))

\* f64::clamp(lo, hi) for lo <= hi: NaN stays NaN
F64Clamp(x, lo, hi) ==
    Bind(x, LAMBDA value :
        IF F64Less(value, lo) THEN lo ELSE IF F64Less(hi, value) THEN hi ELSE value)

\* the bits after the point of the fixed-point numbers of the logarithm
LN_BITS == 5 * DIGIT_BITS
\* 1 and the greatest fixed-point number not above ln 2
LnOne == BigShiftDigits(<<1>>, 5)
LnTwo == << 10994, 3961, 8007, 8575, 11356 >>

\* w^k / (2k + 1) + w^(k+1) / (2k + 3) + ... in fixed point, `power` being
\* w^k: the terms are added up until the power is 0
RECURSIVE AtanhSeries(_, _, _)
AtanhSeries(w, power, k) ==
    Bind(power, LAMBDA p :
        IF p = <<>> THEN <<>>
        ELSE BigAdd(BigDivSmall(p, 2 * k + 1).q,
                    AtanhSeries(w, BigShr(BigMul(p, w), LN_BITS).q, k + 1)))

\* the values of ln(2^power * y) for y = (1 + z) / (1 - z) between sqrt(1/2)
\* and sqrt(2), z = order * numerator / denominator not being 0:
\* ln y = 2 * atanh(z) = 2 * z * (1 + z^2/3 + z^4/5 + ...).  z is kept to
\* 70 significant bits and the series to 70 bits after the point.
F64LnSeries(numerator, denominator, order, power) ==
    Bind2(numerator, LN_BITS + MANTISSA_DIGITS + 1 - BigBitLen(numerator), LAMBDA n, up :
    Bind(BigDiv(BigShl(n, up), denominator).q, LAMBDA z :
    Bind(BigShr(BigMul(z, z), 2 * up - LN_BITS).q, LAMBDA w :
    \* 2 * atanh(z) is product * 2^(-up - LN_BITS)
    Bind(BigMulSmall(BigMul(z, AtanhSeries(w, LnOne, 0)), 2), LAMBDA product :
        IF power = 0 THEN F64Neighbours(order, product, -up - LN_BITS)
        ELSE F64Neighbours(IF power > 0 THEN 1 ELSE -1,
                           IF (power > 0) = (order > 0)
                           THEN BigAdd(BigMulSmall(LnTwo, Abs(power)), BigShr(product, up).q)
                           ELSE BigSub(BigMulSmall(LnTwo, Abs(power)), BigShr(product, up).q),
                           -LN_BITS)))))

\* the values ln can have on a finite number above zero.  The number is
\* 2^power * (m / 2^q) with m / 2^q between sqrt(1/2) and sqrt(2).  f64::ln
\* is the log of the platform and Rust leaves its precision open; the
\* platform's log is off by less than one unit in the last place, so it is
\* one of the two f64 the logarithm lies between, and which of them is not
\* determined by the source.  The logarithm of 1.0 is zero exactly, and no
\* other logarithm is an f64.
F64LnFin(a) ==
    Bind(BigShl(a.m, MANTISSA_DIGITS - BigBitLen(a.m)), LAMBDA m :
    Bind(IF BigBitLen(BigMul(m, m)) >= 2 * MANTISSA_DIGITS
         THEN MANTISSA_DIGITS ELSE MANTISSA_DIGITS - 1, LAMBDA q :
    Bind2(BigShl(<<1>>, q), a.e - (MANTISSA_DIGITS - BigBitLen(a.m)) + q, LAMBDA one, power :
    Bind(BigCmp(m, one), LAMBDA order :
        IF order = 0
        THEN (IF power = 0 THEN {F64Zero}
              ELSE F64Neighbours(IF power > 0 THEN 1 ELSE -1,
                                 BigMulSmall(LnTwo, Abs(power)), -LN_BITS))
        ELSE F64LnSeries(IF order > 0 THEN BigSub(m, one) ELSE BigSub(one, m),
                         BigAdd(m, one), order, power)))))

\* f64::ln: the set of the values the call can return
F64Ln(a) ==
    Bind(a, LAMBDA x :
        IF x.k = "nan" THEN {F64NaN}
        ELSE IF F64IsZero(x) THEN {F64Inf(-1)}
        ELSE IF x.s < 0 THEN {F64NaN}
        ELSE IF x.k = "inf" THEN {x}
        ELSE F64LnFin(x))


----------------------------------------------------------------------------
(* The rewards of the trace builder (builder/ragtimer/rl_traces.rs): the   *)
(* rewards and the probabilities are f64 values.                           *)

\* RagtimerBuilder::default_magic_numbers
default_magic_numbers ==
    [ num_traces              |-> 100,
      dependency_reward       |-> F64FromInt(1),
      base_reward             |-> F64Literal(1, 10),
      trace_reward            |-> F64Literal(1, 100),
      smallest_history_window |-> 50,
      clamp                   |-> F64FromInt(10) ]

\* how often `id` occurs among the ids of a list of transitions
RECURSIVE Occurrences(_, _)
Occurrences(ids, id) ==
    IF ids = <<>> THEN 0
    ELSE (IF ids[1] = id THEN 1 ELSE 0) + Occurrences(Tail(ids), id)

TransitionIdsOf(transitions) == [j \in 1..Len(transitions) |-> transitions[j].transition_id]

\* `*reward += amount`, count times over
RECURSIVE AddTimes(_, _, _)
AddTimes(reward, amount, count) ==
    IF count = 0 THEN reward ELSE AddTimes(F64Add(reward, amount), amount, count - 1)

\* initialize_rewards: base_reward for every transition of the model, and
\* dependency_reward added once for every entry of get_transitions
initialize_rewards(model, dependency_graph, mn) ==
    LET dep_ids == TransitionIdsOf(get_transitions(dependency_graph))
    IN  [id \in { model.transitions[j].transition_id : j \in 1..Len(model.transitions) } |->
            AddTimes(mn.base_reward, mn.dependency_reward, Occurrences(dep_ids, id))]

\* ((history_len as f64) * 0.2).ceil() as usize
CeilFifth(history_len) == (history_len + 4) \div 5

\* the window of update_rewards
window_size(history_len, mn) ==
    LET w == IF history_len < mn.smallest_history_window
             THEN history_len ELSE CeilFifth(history_len)
    IN  IF w < 1 THEN 1 ELSE w

\* &trace_probability_history[start_idx..]
recent_probs(history, mn) ==
    LET history_len == Len(history)
        w == window_size(history_len, mn)
        start_idx == IF history_len < w THEN 0 ELSE history_len - w
    IN  SubSeq(history, start_idx + 1, history_len)

\* the reward every entry of the trace receives: one value for every value
\* of the logarithm
trace_reward_of(trace_, history, mn) ==
    LET latest_probability == history[Len(history)]
        recent == recent_probs(history, mn)
        avg_recent_prob == IF recent # <<>>
                           THEN F64Div(F64Sum(recent), F64FromInt(Len(recent)))
                           ELSE F64Zero
        log_ratios == IF F64Positive(avg_recent_prob) /\ F64Positive(latest_probability)
                      THEN F64Ln(F64Div(latest_probability, avg_recent_prob))
                      ELSE {F64Zero}
    IN  { F64Mul(F64Div(F64Clamp(log_ratio, F64Neg(mn.clamp), mn.clamp),
                        F64FromInt(Len(trace_))),
                 mn.trace_reward) : log_ratio \in log_ratios }

\* update_rewards: nothing for an empty trace or a latest probability that
\* is not above 0, otherwise every entry of the trace adds trace_reward to
\* the reward of its transition.  The set of the reward tables the call
\* can leave: one for every value of trace_reward
update_rewards(rewards_, trace_, history, mn) ==
    LET latest_probability == IF history = <<>> THEN F64Zero ELSE history[Len(history)]
    IN  IF trace_ = <<>> \/ F64NotPositive(latest_probability) THEN {rewards_}
        ELSE { [id \in DOMAIN rewards_ |->
                   AddTimes(rewards_[id], trace_reward, Occurrences(trace_, id))] :
               trace_reward \in trace_reward_of(trace_, history, mn) }

\* maintain_rewards: a transition of the dependency graph has at least
\* dependency_reward
maintain_rewards(rewards_, dependency_graph, mn) ==
    LET dep_ids == TransitionIdsOf(get_transitions(dependency_graph))
    IN  [id \in DOMAIN rewards_ |->
            IF /\ Occurrences(dep_ids, id) > 0
               /\ F64Less(rewards_[id], mn.dependency_reward)
            THEN mn.dependency_reward ELSE rewards_[id]]


----------------------------------------------------------------------------
(* update_rewards as a function of its inputs: a history of any length up  *)
(* to MaxHistoryLen, a window setting up to MaxWindow, and the trace t1.   *)

\* longest history update_rewards is applied to
MaxHistoryLen == 12
\* largest smallest_history_window
MaxWindow == 6

\* the model with the one transition t1 that produces B
OneTransitionModel ==
    AbstractVasNew(variable_names, <<0, 0>>,
                   << VasTransitionNew(0, "t1", <<0, 1>>, <<0, 0>>, 1) >>,
                   VasProperty(1, 1))

WindowInit ==
    /\ vas = OneTransitionModel
    /\ \E w \in 1..MaxWindow :
          magic_numbers = [default_magic_numbers EXCEPT !.smallest_history_window = w]
    /\ \E n \in 1..MaxHistoryLen : trace_probability_history = [j \in 1..n |-> F64One]
    /\ rewards = initialize_rewards(vas, make_dependency_graph(vas).graph, magic_numbers)
    /\ gen_pc = "history"
    /\ gen_state = None
    /\ gen_trace = <<0>>
    /\ gen_probability = F64One
    /\ DgIdle
    /\ TrieIdle
    /\ RlIdle
    /\ BmcIdle
    /\ TtIdle
    /\ CcIdle

\* update_rewards on the trace and the history
UpdateRewards ==
    /\ gen_pc = "history"
    /\ rewards' \in update_rewards(rewards, gen_trace, trace_probability_history,
                                   magic_numbers)
    /\ gen_pc' = "updated"
    /\ UNCHANGED <<vas, magic_numbers, trace_probability_history, gen_state, gen_trace,
                   gen_probability, dg_vars, trie_vars, rl_vars, bmc_vars, tt_vars, cc_vars>>

WindowNext == UpdateRewards

SpecWindow == WindowInit /\ [][WindowNext]_vars

\* C33: for every history length, update_rewards averages over the most
\* recent max(smallest_history_window, ceil(0.2 * history_len)) trace
\* probabilities, and over all of them when the history is shorter.
C33_WindowIsMaxOfBoth ==
    gen_pc = "updated" =>
        LET history_len == Len(trace_probability_history)
            claimed == MaxOf(magic_numbers.smallest_history_window, CeilFifth(history_len))
        IN  Len(recent_probs(trace_probability_history, magic_numbers))
                = IF history_len < claimed THEN history_len ELSE claimed


----------------------------------------------------------------------------
(* add_rl_traces with its rewards and generate_single_trace step by step.  *)
(* A round of the loop of generate_single_trace in which no transition is  *)
(* fired leaves every variable as it is: it is a stuttering step.          *)

\* crn_transition_probability
crn_transition_probability(model, state, transition) ==
    F64Div(F64FromInt(crn_transition_rate(state, transition)),
           F64FromInt(crn_total_outgoing_rate(model, state)))

\* rewards.get(&id) of the ids of a list that have a reward
RewardsOf(rewards_, ids) ==
    LET known == SelectSeq(ids, LAMBDA id : id \in DOMAIN rewards_)
    IN  [j \in 1..Len(known) |-> rewards_[known[j]]]

\* selection_probability of a transition, the shuffle having put the
\* available transitions in the order `shuffled_transitions`
selection_probability(rewards_, shuffled_transitions, id) ==
    LET total_reward == F64Sum(RewardsOf(rewards_, shuffled_transitions))
        transition_reward == IF id \in DOMAIN rewards_ THEN rewards_[id] ELSE F64Zero
    IN  IF F64Positive(total_reward) THEN F64Div(transition_reward, total_reward)
        ELSE transition_reward

\* some draw r of [0, 1) has r < probability, and some draw has not
DrawCanSelect(probability) == F64Positive(probability)
DrawCanSkip(probability) == probability.k = "nan" \/ F64Less(probability, F64One)

CanFire_always(rewards_, available_transitions, id) == TRUE

\* a round can fire the transition: under some order of the shuffle the
\* draws skip the transitions before it and select it
CanFire(rewards_, available_transitions, id) ==
    LET orders == permutations(available_transitions)
    IN  \E p \in 1..Len(available_transitions) : \E o \in 1..Len(orders) :
            /\ orders[o][p] = id
            /\ DrawCanSelect(selection_probability(rewards_, orders[o], id))
            /\ \A q \in 1..(p - 1) :
                  DrawCanSkip(selection_probability(rewards_, orders[o], orders[o][q]))

\* the loop of generate_single_trace ends: the length cap, the target, or
\* no available transition
LoopEnds(model, state, trace_) ==
    \/ ~(Len(trace_) < MAX_TRACE_LENGTH)
    \/ SatisfiesTarget(model, state)
    \/ get_available_transitions(model, state) = <<>>

\* The traces a call of generate_single_trace can return under the rewards,
\* from `current_state` on with `trace` fired so far.  A round fires one of
\* the available transitions a draw can select; a round whose selected id
\* is not found in the model fires nothing.
RECURSIVE GenerateFrom(_, _, _, _)
GenerateFrom(model, rewards_, current_state, trace) ==
    IF LoopEnds(model, current_state, trace) THEN { trace }
    ELSE LET available_transitions == get_available_transitions(model, current_state)
             fired == { j \in 1..Len(available_transitions) :
                          /\ CanFire(rewards_, available_transitions, available_transitions[j])
                          /\ get_transition_from_id(model, available_transitions[j]) # None }
         IN  UNION { GenerateFrom(model, rewards_,
                         VecAdd(current_state,
                                get_transition_from_id(model, available_transitions[j])
                                    .some.update_vector),
                         Append(trace, available_transitions[j])) :
                     j \in fired }

\* trace_probability after the rounds that fired `trace` from `current_state`:
\* each round multiplies it by the probability of its transition at the
\* state the transition leads to
RECURSIVE TraceProbability(_, _, _, _)
TraceProbability(model, current_state, trace, trace_probability) ==
    IF trace = <<>> THEN trace_probability
    ELSE LET vas_transition == get_transition_from_id(model, trace[1]).some
             next_state == VecAdd(current_state, vas_transition.update_vector)
         IN  TraceProbability(model, next_state, Tail(trace),
                 F64Mul(trace_probability,
                        crn_transition_probability(model, next_state, vas_transition)))

\* generate_single_trace: the pairs (trace, trace_probability) a call can
\* return under the rewards
generate_single_trace(model, rewards_) ==
    { [ trace |-> trace,
        trace_probability |-> TraceProbability(model, model.initial_state, trace, F64One) ] :
      trace \in GenerateFrom(model, rewards_, model.initial_state, <<>>) }

\* a call of generate_single_trace begins
CallGenerate ==
    /\ gen_pc' = "generating"
    /\ gen_state' = vas.initial_state
    /\ gen_trace' = <<>>
    /\ gen_probability' = F64One

RewardsStart(models) ==
    /\ vas \in models
    /\ \E n \in 1..MaxNumTraces :
          /\ magic_numbers = [default_magic_numbers EXCEPT !.num_traces = n]
          /\ num_traces = n
    /\ rewards = <<>>
    /\ trace_probability_history = <<>>
    /\ gen_pc = "idle"
    /\ gen_state = <<>>
    /\ gen_trace = <<>>
    /\ gen_probability = None
    /\ rl_pc = "start"
    /\ rl_i = 0
    /\ trace_trie = None
    /\ explicit_model = from_abstract_model(vas)
    /\ stored_traces = <<>>
    /\ DgIdle
    /\ TrieIdle
    /\ BmcIdle
    /\ TtIdle
    /\ CcIdle

\* largest initial value of the models add_rl_traces is run on
MaxRewardInit == 1

RewardModels ==
    { m \in Models : \A i \in 1..NumVars : m.initial_state[i] <= MaxRewardInit }

RewardsInit == RewardsStart(RewardModels)

\* add_rl_traces up to the first call of generate_single_trace
SetUpRewards ==
    /\ rl_pc = "start"
    /\ trace_trie' = TraceTrieNodeNew
    /\ explicit_model' = SetUpStorage(explicit_model, vas)
    /\ LET dep_graph_result == make_dependency_graph(vas)
       IN  IF ~dep_graph_result.ok
           THEN /\ rl_pc' = "returned"
                /\ UNCHANGED <<rewards, gen_pc, gen_state, gen_trace, gen_probability>>
           ELSE /\ rewards' = initialize_rewards(vas, dep_graph_result.graph, magic_numbers)
                /\ IF rl_i < magic_numbers.num_traces
                   THEN rl_pc' = "loop" /\ CallGenerate
                   ELSE /\ rl_pc' = "done"
                        /\ UNCHANGED <<gen_pc, gen_state, gen_trace, gen_probability>>
    /\ UNCHANGED <<vas, num_traces, rl_i, stored_traces, magic_numbers,
                   trace_probability_history, dg_vars, trie_vars, bmc_vars, tt_vars, cc_vars>>

\* a round of the loop of generate_single_trace that fires a transition
FireTransition(id) ==
    /\ gen_pc = "generating"
    /\ ~LoopEnds(vas, gen_state, gen_trace)
    /\ LET available_transitions == get_available_transitions(vas, gen_state)
           vas_transition == get_transition_from_id(vas, id)
       IN  /\ \E j \in 1..Len(available_transitions) : available_transitions[j] = id
           /\ CanFire(rewards, available_transitions, id)
           /\ vas_transition # None
           /\ \E next_state \in {VecAdd(gen_state, vas_transition.some.update_vector)} :
                 \E transition_probability \in
                        {crn_transition_probability(vas, next_state, vas_transition.some)} :
                    /\ gen_state' = next_state
                    /\ gen_trace' = Append(gen_trace, id)
                    /\ gen_probability' = F64Mul(gen_probability, transition_probability)
    /\ UNCHANGED <<vas, gen_pc, magic_numbers, rewards, trace_probability_history,
                   rl_vars, dg_vars, trie_vars, bmc_vars, tt_vars, cc_vars>>

\* generate_single_trace returning after any round
ReturnTrace_early ==
    /\ gen_pc = "generating"
    /\ gen_pc' = "returned"
    /\ UNCHANGED <<vas, gen_state, gen_trace, gen_probability, magic_numbers, rewards,
                   trace_probability_history, rl_vars, dg_vars, trie_vars, bmc_vars,
                   tt_vars, cc_vars>>

\* generate_single_trace returns
ReturnTrace ==
    /\ gen_pc = "generating"
    /\ LoopEnds(vas, gen_state, gen_trace)
    /\ gen_pc' = "returned"
    /\ UNCHANGED <<vas, gen_state, gen_trace, gen_probability, magic_numbers, rewards,
                   trace_probability_history, rl_vars, dg_vars, trie_vars, bmc_vars,
                   tt_vars, cc_vars>>

\* the returned trace is empty or exists already: another one is generated
RejectTrace ==
    /\ gen_pc = "returned"
    /\ LET r == exists_or_insert(trace_trie, gen_trace)
       IN  /\ ~(~r.ret /\ gen_trace # <<>>)
           /\ trace_trie' = r.trie
    /\ CallGenerate
    /\ UNCHANGED <<vas, num_traces, rl_pc, rl_i, explicit_model, stored_traces, magic_numbers,
                   rewards, trace_probability_history, dg_vars, trie_vars, bmc_vars,
                   tt_vars, cc_vars>>

\* the returned trace is new: it is stored and the rewards are updated
RewardTrace ==
    /\ gen_pc = "returned"
    /\ LET r == exists_or_insert(trace_trie, gen_trace)
       IN  /\ ~r.ret /\ gen_trace # <<>>
           /\ trace_trie' = r.trie
    /\ trace_probability_history' = Append(trace_probability_history, gen_probability)
    /\ explicit_model' = store_explicit_trace(explicit_model, vas, gen_trace)
    /\ stored_traces' = Append(stored_traces, gen_trace)
    /\ \E updated \in update_rewards(rewards, gen_trace, trace_probability_history',
                                      magic_numbers) :
           rewards' = maintain_rewards(updated, make_dependency_graph(vas).graph,
                                       magic_numbers)
    /\ rl_i' = rl_i + 1
    /\ IF rl_i + 1 < magic_numbers.num_traces
       THEN rl_pc' = "loop" /\ CallGenerate
       ELSE /\ rl_pc' = "done"
            /\ gen_pc' = "idle"
            /\ UNCHANGED <<gen_state, gen_trace, gen_probability>>
    /\ UNCHANGED <<vas, num_traces, magic_numbers, dg_vars, trie_vars, bmc_vars, tt_vars,
                   cc_vars>>

RewardsNext ==
    \/ SetUpRewards
    \/ \E id \in 0..1 : FireTransition(id)
    \/ ReturnTrace
    \/ RejectTrace
    \/ RewardTrace

SpecRewards == RewardsInit /\ [][RewardsNext]_vars

\* C5: add_rl_traces terminates with exactly num_traces pairwise distinct
\* non-empty traces stored: while a trace is still owed, the generator can
\* return one the loop accepts, and at the end num_traces traces are stored.
C5_TerminatesWithNumTraces ==
    /\ rl_pc = "loop" =>
          \E r \in generate_single_trace(vas, rewards) : AcceptableTrace(r.trace)
    /\ rl_pc = "done" =>
          /\ Len(stored_traces) = num_traces
          /\ \A a, b \in 1..Len(stored_traces) :
                /\ stored_traces[a] # <<>>
                /\ (a # b => stored_traces[a] # stored_traces[b])


\* add_rl_traces up to the first call of generate_single_trace, on the
\* models with three transitions
RewardsThreeInit == RewardsStart(ThreeTransitionModels)

SetUpNext == SetUpRewards

SpecSetUp == RewardsThreeInit /\ [][SetUpNext]_vars

\* C34: after initialize_rewards every transition absent from the
\* dependency graph has reward base_reward and every transition present in
\* it has reward base_reward + dependency_reward, however many nodes of the
\* graph carry that transition.
C34_SeedRewards ==
    (rl_pc = "loop" /\ rl_i = 0) =>
        LET dep_ids == TransitionIdsOf(get_transitions(make_dependency_graph(vas).graph))
        IN  \A j \in 1..Len(vas.transitions) :
                rewards[vas.transitions[j].transition_id] =
                    IF Occurrences(dep_ids, vas.transitions[j].transition_id) = 0
                    THEN magic_numbers.base_reward
                    ELSE F64Add(magic_numbers.base_reward, magic_numbers.dependency_reward)


\* the trace is a firing sequence of the model from `state`: every
\* transition is enabled at the state where it fires, and that state does
\* not satisfy the target
RECURSIVE FiringSequence(_, _, _)
FiringSequence(model, state, trace_) ==
    IF trace_ = <<>> THEN TRUE
    ELSE LET found == get_transition_from_id(model, trace_[1])
         IN  /\ found # None
             /\ ~SatisfiesTarget(model, state)
             /\ \A i \in 1..Len(state) : state[i] >= found.some.enabled_bounds[i]
             /\ FiringSequence(model, VecAdd(state, found.some.update_vector), Tail(trace_))

\* the state a trace leads to from `state`
RECURSIVE StateAfterTrace(_, _, _)
StateAfterTrace(model, state, trace_) ==
    IF trace_ = <<>> THEN state
    ELSE StateAfterTrace(model,
             VecAdd(state, get_transition_from_id(model, trace_[1]).some.update_vector),
             Tail(trace_))

\* C35: every trace returned by generate_single_trace is a firing sequence
\* of the model from the initial state: each transition is enabled at the
\* state where it fires, no state before the last one satisfies the target,
\* the trace has at most MAX_TRACE_LENGTH transitions, and each loop step
\* appends at most one transition.
C35_TracesAreFiringSequences ==
    /\ [](gen_pc \in {"generating", "returned"} =>
            /\ FiringSequence(vas, vas.initial_state, gen_trace)
            /\ gen_state = StateAfterTrace(vas, vas.initial_state, gen_trace)
            /\ Len(gen_trace) <= MAX_TRACE_LENGTH)
    /\ [][ (gen_pc = "generating" /\ gen_pc' = "generating")
             => \/ gen_trace' = gen_trace
                \/ /\ Len(gen_trace') = Len(gen_trace) + 1
                   /\ SubSeq(gen_trace', 1, Len(gen_trace)) = gen_trace ]_vars

\* generate_single_trace has returned a trace of two or more transitions
\* that ends in a state satisfying the target
C35_Witness ==
    /\ gen_pc = "returned"
    /\ Len(gen_trace) >= 2
    /\ SatisfiesTarget(vas, gen_state)


\* largest initial value of the models of the fair specification
MaxFairInit == 1
MaxFairTransitions == 1

\* the models of the input space with at most MaxFairTransitions transitions
\* and initial values of at most MaxFairInit
FairModels ==
    { m \in Models : /\ Len(m.transitions) <= MaxFairTransitions
                     /\ \A i \in 1..NumVars : m.initial_state[i] <= MaxFairInit }

RewardsFairInit == RewardsStart(FairModels)

\* The random draws are fair: a round that can fire a transition or leave
\* the loop is not put off for ever.
SpecRewardsFair ==
    RewardsFairInit /\ [][RewardsNext]_vars
        /\ WF_vars((\E id \in 0..1 : FireTransition(id)) \/ ReturnTrace)

\* C36: generate_single_trace terminates under fair random draws for every
\* reward table reachable through initialize_rewards, update_rewards and
\* maintain_rewards.
C36_GenerationTerminates ==
    (gen_pc = "generating") ~> (gen_pc = "returned")

----------------------------------------------------------------------------
(* The model validator and the command-line entry points.                  *)

\* check_variable_names: the errors for empty and for duplicate names
check_variable_names(names) ==
    (IF \E i \in 1..Len(names) : names[i] = ""
     THEN << "variables have empty names" >> ELSE <<>>)
    \o (IF \E i, j \in 1..Len(names) : i # j /\ names[i] = names[j]
        THEN << "Duplicate variable names found" >> ELSE <<>>)

\* initial_state_neq_target
initial_state_neq_target(initial_state, property) ==
    IF initial_state[property.variable_index + 1] = property.target_value
    THEN << "Initial state satisfies target" >> ELSE <<>>

\* check_sck_assumption: per transition, the total change and the largest
\* entry of the update vector
check_sck_assumption(transitions) ==
    Flatten([j \in 1..Len(transitions) |->
        LET total_update == SumSeq(transitions[j].update_vector)
        IN  (IF total_update > 3 \/ total_update < -3
             THEN << "update vector with total change > 3" >> ELSE <<>>)
            \o (IF \E i \in 1..Len(transitions[j].update_vector) :
                      transitions[j].update_vector[i] > 2
                THEN << "update with a value > 2" >> ELSE <<>>)])

\* check_rate_constant
check_rate_constant(transitions) ==
    Flatten([j \in 1..Len(transitions) |->
        IF transitions[j].rate_const <= 0
        THEN << "non-positive rate constant" >> ELSE <<>>])

\* write_outcome: the PASS or FAIL line of a test with its errors
write_outcome(test_name, errors) ==
    [test |-> test_name, pass |-> errors = <<>>, errors |-> errors]

\* validate_vas: the report of the four tests, always returned as Ok
validate_vas(model, property) ==
    [ ok     |-> TRUE,
      result |-> << write_outcome("Check Variable Names",
                                  check_variable_names(model.variable_names)),
                    write_outcome("Check Initial State != Target",
                                  initial_state_neq_target(model.initial_state, property)),
                    write_outcome("Check SCK Assumption (CRNs Only)",
                                  check_sck_assumption(model.transitions)),
                    write_outcome("Check Rate Constant",
                                  check_rate_constant(model.transitions)) >> ]

\* AbstractVas::validate_model
validate_model(model, property) == validate_vas(model, property)

\* the variable names and rate constants of the model files: a name is a
\* word of its line and never empty, two variables may share a name
ValidationNames == { <<"A", "B">>, <<"A", "A">> }
ValidationRates == { -1, 0, 1 }
MaxValidationTransitions == 1

\* get_variable_id: the position of the first variable of that name, 0-based
get_variable_id(names, name) ==
    LET hits == { i \in 1..Len(names) : names[i] = name }
    IN  IF hits = {} THEN None ELSE Some((CHOOSE i \in hits : \A j \in hits : i <= j) - 1)

\* a model file addresses a variable by its name, so only the first
\* variable of a name is changed, needed or targeted
Addressable(names, model) ==
    LET first(i) == get_variable_id(names, names[i]) = Some(i - 1)
    IN  /\ first(model.target.variable_index + 1)
        /\ \A j \in 1..Len(model.transitions) : \A i \in 1..Len(names) :
              first(i) \/ (/\ model.transitions[j].update_vector[i] = 0
                           /\ model.transitions[j].enabled_bounds[i] = 0)

\* what the file reader can hand over: build_transitions starts every
\* rate_const at 0.0 and accepts any float
ValidationModels ==
    { AbstractVasNew(nm[1], nm[2].initial_state,
                     [j \in 1..Len(nm[2].transitions) |->
                         [nm[2].transitions[j] EXCEPT !.rate_const = rate]],
                     nm[2].target) :
        rate \in ValidationRates,
        nm \in { x \in ValidationNames
                         \X { mm \in Models : Len(mm.transitions) <= MaxValidationTransitions } :
                    Addressable(x[1], x[2]) } }

\* main with the subcommand ragtimer, up to the parsed model.  The qty
\* argument is parsed and not used: the builder is made without a method
\* and takes the default magic numbers, whose number of traces, 100, is
\* scaled down to 1..MaxNumTraces.
MainInit ==
    /\ vas \in ValidationModels
    /\ dg_pc = "parsed"
    /\ dg_result = None
    /\ trimmed_model = None
    /\ \E n \in 1..MaxNumTraces : num_traces = n
    /\ rl_pc = "idle"
    /\ rl_i = 0
    /\ trace_trie = None
    /\ explicit_model = None
    /\ stored_traces = <<>>
    /\ magic_numbers = None
    /\ rewards = <<>>
    /\ trace_probability_history = <<>>
    /\ gen_pc = "idle"
    /\ gen_state = <<>>
    /\ gen_trace = <<>>
    /\ gen_probability = None
    /\ TrieIdle
    /\ BmcIdle
    /\ TtIdle
    /\ CcIdle

\* PrismVasModel::from_abstract_model, RagtimerBuilder::new without a
\* method and build up to its call of add_rl_traces
RagtimerBuild ==
    /\ dg_pc = "graph"
    /\ rl_pc = "idle"
    /\ explicit_model' = from_abstract_model(vas)
    /\ magic_numbers' = [default_magic_numbers EXCEPT !.num_traces = num_traces]
    /\ rl_pc' = "start"
    /\ UNCHANGED <<vas, num_traces, rl_i, trace_trie, stored_traces, rewards,
                   trace_probability_history, gen_pc, gen_state, gen_trace, gen_probability,
                   dg_vars, trie_vars, bmc_vars, tt_vars, cc_vars>>

\* main with the subcommand ragtimer: the model is parsed, its dependency
\* graph is built and, if there is one, the traces are built.  Nothing
\* calls validate_model.
MainNext ==
    \/ MakeDependencyGraph
    \/ RagtimerBuild
    \/ SetUpRewards
    \/ \E id \in 0..1 : FireTransition(id)
    \/ ReturnTrace
    \/ RejectTrace
    \/ RewardTrace

SpecMain == MainInit /\ [][MainNext]_vars

\* a check named by the validator fails on the model
FailsValidation(model) ==
    \/ check_variable_names(model.variable_names) # <<>>
    \/ initial_state_neq_target(model.initial_state, model.target) # <<>>
    \/ check_rate_constant(model.transitions) # <<>>

\* C37: a model that fails a validation check is rejected before any engine
\* runs: once main has gone on from parsing such a model, validate_vas has
\* returned Err for it and neither the dependency-graph stage nor the
\* trace-building stage was started.
C37_InvalidModelRejected ==
    (FailsValidation(vas) /\ dg_pc # "parsed") =>
        /\ ~validate_model(vas, vas.target).ok
        /\ dg_result = None
        /\ rl_pc = "idle"

\* the depth of the deepest call of rec_build_graph, the root's being 1
BuiltDepth == GraphDepth(dg_result.graph.root, 1)

\* C38: the recursion depth of rec_build_graph never exceeds
\* 2 * (number of transitions) + 1, which is below the depth cap of 5000
\* for fewer than 2500 transitions, and make_dependency_graph returns.
C38_DepthBounded ==
    (dg_pc # "parsed" /\ dg_result # None /\ dg_result.ok) =>
        /\ BuiltDepth <= 2 * Len(vas.transitions) + 1
        /\ (Len(vas.transitions) < 2500 => BuiltDepth < DEBUG_DEPTH_LIMIT)

\* a graph was built whose deepest path repeats a transition name
C38_Witness ==
    /\ dg_pc # "parsed" /\ dg_result # None /\ dg_result.ok
    /\ BuiltDepth > Len(vas.transitions) + 1

\* s is a proper prefix of t
ProperPrefix(s, t) == Len(s) < Len(t) /\ SubSeq(t, 1, Len(s)) = s

\* the traces add_rl_traces has recorded so far
RecordedTraces == { stored_traces[j] : j \in 1..Len(stored_traces) }

\* a reward table under which a draw can select every transition
EvenRewards(model) ==
    [id \in { model.transitions[j].transition_id : j \in 1..Len(model.transitions) } |->
        F64One]

\* the traces generate_single_trace can produce for the model
ProducibleTraces(model) ==
    GenerateFrom(model, EvenRewards(model), model.initial_state, <<>>)

\* C39: a trace returned by generate_single_trace is neither a proper prefix
\* nor a proper extension of a trace it can produce for the same model or
\* of a trace already recorded by add_rl_traces.
C39_TracesPrefixFree ==
    gen_pc = "returned" =>
        \A t \in ProducibleTraces(vas) \cup RecordedTraces :
            ~ProperPrefix(gen_trace, t) /\ ~ProperPrefix(t, gen_trace)

\* with a trace on record, a call returns a different non-empty trace
C39_Witness ==
    /\ gen_pc = "returned"
    /\ RecordedTraces # {}
    /\ gen_trace # <<>>
    /\ gen_trace \notin RecordedTraces

\* cycle_commute on trace files of up to MaxSeedFileLines lines, for the
\* models whose initial values are at most MaxSeedInit
MaxSeedFileLines == 2
MaxSeedInit == 1
SeedFiles == SeqsUpTo(TraceLines, MaxSeedFileLines)
SeedModels ==
    { m \in Models : \A i \in 1..NumVars : m.initial_state[i] <= MaxSeedInit }

CcLinesInit ==
    /\ vas \in SeedModels
    /\ trace_file \in SeedFiles
    /\ cc_pc = "start"
    /\ prism_states = <<>>
    /\ state_trie = None
    /\ prism_transitions = <<>>
    /\ seed_trace = <<>>
    /\ cycle_log = <<>>
    /\ DgIdle
    /\ TrieIdle
    /\ RlIdle
    /\ BmcIdle
    /\ TtIdle
    /\ RwIdle

SpecCCLines == CcLinesInit /\ [][CcNext]_vars

\* the vectors the state trie of cycle_commute records with an id
VectorsOfId(id) ==
    { e[1] : e \in { x \in TrieEntries(state_trie, <<>>) : x[2] = id } }

\* some transition of the model with the rate of the edge is enabled at the
\* source and leads to the destination
LegalStep(model, source, destination, rate) ==
    \E j \in 1..Len(model.transitions) :
        /\ get_sck_rate(model.transitions[j]) = rate
        /\ enabled_vector(model.transitions[j], source)
        /\ destination = VecAdd(source, model.transitions[j].update_vector)

\* C40: every non-sink edge of the state space of cycle_commute is a legal
\* step: its transition is enabled at the source state and the destination
\* is the source plus the update of the transition.
C40_EdgesAreLegalSteps ==
    cc_pc \in {"seeded", "commuted", "cycled", "done"} =>
        \A k \in DOMAIN prism_transitions :
            prism_transitions[k].to_state # 0 =>
                \E source \in VectorsOfId(prism_transitions[k].from_state),
                   destination \in VectorsOfId(prism_transitions[k].to_state) :
                    LegalStep(vas, source, destination, prism_transitions[k].rate)

============================================================================
